---- MODULE Spec2Model ----
(***************************************************************************)
(* A model of the nearcore client (chain/client/src/client.rs): the        *)
(* synchronous state machine that produces blocks, ingests blocks and      *)
(* keeps the sharded transaction pool in step with the chain.              *)
(*                                                                         *)
(* The chain store, the runtime adapter, Doomslug and the transaction pool *)
(* are collaborators of the client.  Their answers are inputs of the       *)
(* client's handlers (drawn with \E), their state is kept as far as the    *)
(* client reads it back.                                                   *)
(***************************************************************************)
EXTENDS Integers, Sequences, FiniteSets, TLC

\* ---------------------------------------------------------------- bounds

\* Largest block height the chain reaches or a caller asks for.
MaxHeight == 3
\* Largest number of blocks in the block store, genesis included.
MaxBlocks == 3
\* The same where branches with a common ancestor above genesis are needed.
MaxPoolBlocks == 4
\* Largest reading of the monotonic clock.
MaxClock == 3
\* Largest height and number of blocks where finality moves: a block
\* becomes final two consecutive heights later.
MaxFinalHeight == 4
MaxFinalBlocks == 5
\* Entries a database holds at most.
MaxDbEntries == 2

\* ---------------------------------------------------------- value spaces

Shards == {0, 1}
Txs == {1, 2, 3}
\* runtime_adapter.account_id_to_shard_id of the transaction's signer.
ShardOf(tx) == tx % 2
Accounts == {"alice", "bob"}
Heights == 1..MaxHeight

\* Number of heights ahead of the head a block may be while syncing; the
\* 500 of the code scaled to the heights of the model.
BLOCK_HORIZON == 2

\* Capacity of the cache of rebroadcast block hashes; the 30 of the code
\* scaled to the blocks of the model.
NUM_REBROADCAST_BLOCKS == 2

\* The protocol version of the binary; the value stands for the one of
\* near_primitives::version.
PROTOCOL_VERSION == 2
\* Protocol versions an epoch can have: the binary's or the next one.

\* CryptoHash::default(): the prev_hash of genesis, the key of no block.
DefaultHash == 0
\* Option::None, for the optional values of the model.
None == "none"

VARIABLES
    blocks,                 \* chain store: block hash (index) -> block
    head,                   \* chain.head().last_block_hash
    latest_known,           \* chain store: LatestKnown {height, seen}
    adv_produce_blocks,     \* Client::adv_produce_blocks (test_features)
    adv_produce_blocks_only_valid,
    validator_signer,       \* Client::validator_signer: None or the account
    produce_empty_blocks,   \* ClientConfig::produce_empty_blocks
    ready,                  \* prev_block_to_chunk_headers_ready_for_inclusion
    ready_lru,              \* its keys, the least recently used first
    doomslug_tip,           \* Doomslug::get_tip()
    sharded_tx_pool,        \* Client::sharded_tx_pool: shard -> transactions
    assigned_shards,        \* runtime: shards the validator account is assigned
    tracked_shards,         \* runtime: shards the node tracks by configuration
    is_syncing,             \* Client::sync_status.is_syncing()
    orphans,                \* chain: the orphan pool
    in_processing,          \* chain: blocks whose chunks are being applied
    processed_heights,      \* chain store: heights marked as processed
    tail,                   \* chain.tail()
    rebroadcasted_blocks,   \* Client::rebroadcasted_blocks: LRU, oldest first
    clock,                  \* Clock::instant()
    last_time_head_progress_made,   \* Client::last_time_head_progress_made
    last_time_head_updated, \* chain.get_last_time_head_updated()
    network_requests,       \* what the handler that ran last sent to the network
    last_result,            \* what the handler that ran last returned
    max_produced,           \* history: largest height returned as Some(block)
    adv_used,               \* history: an adversarial flag was ever set
    sent_in_window,         \* history: hashes sent as Block and cached since
    pending_approvals,      \* Client::pending_approvals: LRU, oldest first
    tier1_accounts_cache,   \* Client::tier1_accounts_cache: <<>> or <<entry>>
    state_sync_infos,       \* chain store: the sync hashes with a StateSyncInfo
    catchup_state_syncs,    \* Client::catchup_state_syncs: sync hash -> entry
    hot,                    \* ColdDB::hot: the hot database
    cold                    \* ColdDB::cold: the underlying cold database

vars == <<blocks, head, latest_known, adv_produce_blocks,
          adv_produce_blocks_only_valid, validator_signer,
          produce_empty_blocks, ready, ready_lru, doomslug_tip, sharded_tx_pool,
          assigned_shards, tracked_shards, is_syncing, orphans,
          in_processing, processed_heights, tail, rebroadcasted_blocks,
          clock, last_time_head_progress_made, last_time_head_updated,
          network_requests, last_result, max_produced, adv_used,
          sent_in_window, pending_approvals, tier1_accounts_cache,
          state_sync_infos, catchup_state_syncs, hot, cold>>

\* What the chain and the client keep of the blocks that came in.
ingress_vars == <<orphans, in_processing, processed_heights, tail,
                  rebroadcasted_blocks>>

\* The two databases of the cold storage.
db_vars == <<hot, cold>>

\* The clock, what the client and the chain remember of it, and the
\* history of the blocks sent.
stall_vars == <<clock, last_time_head_progress_made, last_time_head_updated,
                sent_in_window>>

\* ------------------------------------------------------------ the chain

\* A chunk header as the client reads it.  Its hash is its content.
ChunkHeader(shard, prev, txs, included) ==
    [shard_id |-> shard, prev_block_hash |-> prev, txs |-> txs,
     height_included |-> included]

GenesisBlock ==
    [prev_hash |-> DefaultHash, height |-> 0,
     chunks |-> [s \in Shards |-> ChunkHeader(s, DefaultHash, {}, 0)],
     last_final_block |-> DefaultHash, last_ds_final_block |-> DefaultHash]

HeadBlock == blocks[head]

\* Tip of the chain: chain.head().
Tip == [last_block_hash |-> head, height |-> HeadBlock.height,
        prev_block_hash |-> HeadBlock.prev_hash]

NoResult == [op |-> "none", kind |-> "idle"]

\* Chain::get_prev_chunk_headers: the chunk header of every shard as the
\* previous block carries it.
get_prev_chunk_headers(prev_hash) == blocks[prev_hash].chunks

\* ChainStoreUpdate::try_save_latest_known: the chain moves LatestKnown
\* forward when it sees a higher block, never backward.
try_save_latest_known(height, now) ==
    IF height > latest_known.height
    THEN [height |-> height, seen |-> now]
    ELSE latest_known

\* ------------------------------------------------------- block production

\* known_block_height with the comparison made strict.
known_block_height_strict(next_height, known_height) ==
    IF adv_produce_blocks THEN FALSE ELSE next_height < known_height

\* Check that this block height is not known yet.
known_block_height(next_height, known_height) ==
    IF adv_produce_blocks THEN FALSE ELSE next_height <= known_height

\* is_me_block_producer taking every node for the producer.
is_me_block_producer_anyone(account_id, next_block_proposer) == TRUE

\* Check that we are next block producer.
is_me_block_producer(account_id, next_block_proposer) ==
    IF adv_produce_blocks_only_valid THEN account_id = next_block_proposer
    ELSE IF adv_produce_blocks THEN TRUE
    ELSE account_id = next_block_proposer

\* should_reschedule_block without the check of the known height.
should_reschedule_block_any_height(next_height, known_height, account_id, next_block_proposer, epoch_start, caught_up) ==
    IF ~is_me_block_producer(account_id, next_block_proposer) THEN TRUE
    ELSE IF adv_produce_blocks THEN FALSE
    ELSE epoch_start /\ ~caught_up

\* epoch_start: runtime_adapter.is_next_block_epoch_start(head);
\* caught_up: chain.prev_block_is_caught_up(prev_prev_hash, prev_hash).
should_reschedule_block(next_height, known_height, account_id, next_block_proposer, epoch_start, caught_up) ==
    IF known_block_height(next_height, known_height) THEN TRUE
    ELSE IF ~is_me_block_producer(account_id, next_block_proposer) THEN TRUE
    ELSE IF adv_produce_blocks THEN FALSE
    ELSE epoch_start /\ ~caught_up

\* The snapshot of the chunk readiness cache for one previous block: the
\* headers stored under prev_block_hash, one per shard at most.
get_chunk_headers_ready_for_inclusion(prev_block_hash) ==
    {h \in ready : h.prev_block_hash = prev_block_hash}

\* The cache after a put of a map with the one header under its
\* prev_block_hash.
ReadyPut(cache, chunk_header) ==
    {h \in cache : h.prev_block_hash # chunk_header.prev_block_hash} \cup {chunk_header}

\* The cache after on_chunk_header_ready_for_inclusion: the header takes
\* the slot of its (prev_block_hash, shard_id).
ReadyInsert(cache, chunk_header) ==
    {h \in cache : ~(/\ h.prev_block_hash = chunk_header.prev_block_hash
                     /\ h.shard_id = chunk_header.shard_id)}
        \cup {chunk_header}

\* Capacity of the chunk readiness cache, in previous block hashes.
CHUNK_HEADERS_FOR_INCLUSION_CACHE_SIZE == 2

\* The keys of the readiness cache after get_or_insert and get_mut of a
\* key, keeping every key however many there are.
ready_touch_unbounded(order, prev_block_hash) ==
    LET IsOther(h) == h # prev_block_hash IN
    Append(SelectSeq(order, IsOther), prev_block_hash)

\* The keys of the readiness cache after get_or_insert and get_mut of a
\* key: the key becomes the most recently used, and a new key put into a
\* full cache takes the place of the least recently used one.
ready_touch(order, prev_block_hash) ==
    LET IsOther(h) == h # prev_block_hash
        others == SelectSeq(order, IsOther)
        full == /\ Len(others) = Len(order)
                /\ Len(order) >= CHUNK_HEADERS_FOR_INCLUSION_CACHE_SIZE
    IN Append(IF full THEN Tail(others) ELSE others, prev_block_hash)

\* The headers of the readiness cache left under the keys it holds.
ready_kept(cache, order) ==
    {h \in cache : \E i \in DOMAIN order : order[i] = h.prev_block_hash}

\* block_approvals looking only at the witness, not at the slashed flag.
block_approvals_unslashed(approvers, approvals_map) ==
    [i \in 1..Len(approvers) |->
        IF approvers[i].account_id \in DOMAIN approvals_map
        THEN approvals_map[approvers[i].account_id]
        ELSE None]

\* The approvals vector: one slot per approver in the runtime's order; a
\* slashed approver gets None, any other the signature the witness holds
\* for its account, which is taken out of the map.
RECURSIVE block_approvals(_, _)
block_approvals(approvers, approvals_map) ==
    IF approvers = <<>> THEN <<>>
    ELSE LET a == Head(approvers) IN
         IF a.is_slashed
         THEN <<None>> \o block_approvals(Tail(approvers), approvals_map)
         ELSE IF a.account_id \in DOMAIN approvals_map
         THEN <<approvals_map[a.account_id]>>
                  \o block_approvals(Tail(approvers),
                                     [x \in DOMAIN approvals_map \ {a.account_id} |-> approvals_map[x]])
         ELSE <<None>> \o block_approvals(Tail(approvers), approvals_map)

\* block_chunks placing the ready headers as they were reported.
block_chunks_unstamped(prev_chunks, new_chunks, next_height) ==
    [s \in Shards |->
        IF \E h \in new_chunks : h.shard_id = s
        THEN CHOOSE x \in new_chunks : x.shard_id = s
        ELSE prev_chunks[s]]

\* Collect new chunks: a ready header is placed in the slot of its shard
\* with height_included set to the block's height; the other slots keep
\* the header of the previous block.
block_chunks(prev_chunks, new_chunks, next_height) ==
    [s \in Shards |->
        IF \E h \in new_chunks : h.shard_id = s
        THEN LET h == CHOOSE x \in new_chunks : x.shard_id = s IN
             [h EXCEPT !.height_included = next_height]
        ELSE prev_chunks[s]]

\* produce_block handing the block back whatever save_latest_known said.
produce_block_return_unsaved(save_ok, block) ==
    [kind |-> "some", block |-> block]

\* What produce_block hands back after save_latest_known: the block when
\* the save succeeded, the store's error otherwise.
produce_block_return(save_ok, block) ==
    IF save_ok THEN [kind |-> "some", block |-> block]
    ELSE [kind |-> "err", block |-> None]

\* The tip Doomslug holds before the first set_tip.
DefaultDoomslugTip == [hash |-> DefaultHash, height |-> 0, last_final_height |-> 0]

\* Checks if the latest hash known to Doomslug matches the current head, and
\* updates it if not: the tip Doomslug holds afterwards.
check_and_update_doomslug_tip(store, head_hash, tip) ==
    IF head_hash # tip.hash
    THEN LET last_final_hash == store[head_hash].last_final_block IN
         [hash |-> head_hash,
          height |-> store[head_hash].height,
          last_final_height |->
              IF last_final_hash = DefaultHash THEN GenesisBlock.height
              ELSE store[last_final_hash].height]
    ELSE tip

\* protocol_version_newer finding no version newer than the binary's.
protocol_version_newer_never(protocol_version) == FALSE

\* The client protocol version is older than the protocol version of the
\* network.
protocol_version_newer(protocol_version) == protocol_version > PROTOCOL_VERSION

\* Places where a `?` of produce_block can return a store or runtime error:
\* before the Doomslug tip is touched, between the tip update and the
\* witness, between the witness and the save, and in save_latest_known.
FailPoints == {"no", "store", "runtime", "assemble", "save"}

\* The value produce_block leaves in last_result.
\* The answers produce_block read on its way: the elected producer, whether
\* the next block starts an epoch, whether the previous block is caught up,
\* whether the elected producer's key is the local one ("yes" or "no"),
\* the protocol version of the epoch; None, and 0 for the version, for an
\* answer the call returned without reading.
Answer(b) == IF b THEN "yes" ELSE "no"

NoAnswers ==
    [next_block_proposer |-> None, epoch_start |-> None, caught_up |-> None,
     key_matches |-> None, protocol_version |-> 0]

rescheduling_answers(next_height, known_height, account_id, next_block_proposer, epoch_start, caught_up) ==
    IF known_block_height(next_height, known_height) THEN NoAnswers
    ELSE IF \/ ~is_me_block_producer(account_id, next_block_proposer)
            \/ adv_produce_blocks
    THEN [NoAnswers EXCEPT !.next_block_proposer = next_block_proposer]
    ELSE IF ~epoch_start
    THEN [NoAnswers EXCEPT !.next_block_proposer = next_block_proposer,
                           !.epoch_start = "no"]
    ELSE [NoAnswers EXCEPT !.next_block_proposer = next_block_proposer,
                           !.epoch_start = "yes",
                           !.caught_up = Answer(caught_up)]

ProduceResult(next_height, fail_at, r, witness_calls, approvers, witness, answers) ==
    [op |-> "produce_block", kind |-> r.kind, block |-> r.block,
     next_height |-> next_height, fail_at |-> fail_at,
     witness_calls |-> witness_calls,
     approvers |-> approvers, witness |-> witness, answers |-> answers]

NoBlock(kind) == [kind |-> kind, block |-> None]

\* produce_block(next_height).  The answers of the collaborators are drawn
\* where the code asks for them: next_block_proposer (get_block_producer),
\* epoch_start and caught_up (see should_reschedule_block), key_matches
\* (the validator's registered key is the signer's), witness
\* (Doomslug::get_witness), protocol_version (get_epoch_protocol_version),
\* approvers (get_epoch_block_approvers_ordered),
\* timestamp (the produced header's raw_timestamp).  fail_at is the `?`
\* that returns an error, if any.  The sets the answers range over are
\* parameters.
produce_block(next_height, fail_at, approver_lists, witnesses, timestamps) ==
    LET known_height == latest_known.height
        prev_hash == head
        new_chunks == get_chunk_headers_ready_for_inclusion(prev_hash)
        Return(r, calls, approvers, witness, answers) ==
            last_result' = ProduceResult(next_height, fail_at, r, calls,
                                         approvers, witness, answers)
    IN
    /\ last_result.kind # "panic"
    /\ UNCHANGED db_vars
    /\ UNCHANGED <<pending_approvals, tier1_accounts_cache, state_sync_infos, catchup_state_syncs>>
    /\ network_requests' = <<>>
    /\ UNCHANGED ingress_vars
    /\ UNCHANGED stall_vars
    /\ UNCHANGED <<blocks, head, adv_produce_blocks, adv_produce_blocks_only_valid,
                   validator_signer, produce_empty_blocks, ready, ready_lru,
                   sharded_tx_pool,
                   assigned_shards, tracked_shards, is_syncing, adv_used>>
    /\ IF fail_at = "store" \/ validator_signer = None
       THEN /\ Return(NoBlock("err"), 0, <<>>, <<>>, NoAnswers)
            /\ UNCHANGED <<doomslug_tip, latest_known, max_produced>>
       ELSE
       /\ doomslug_tip' = check_and_update_doomslug_tip(blocks, head, doomslug_tip)
       /\ IF fail_at = "runtime"
          THEN /\ Return(NoBlock("err"), 0, <<>>, <<>>, NoAnswers)
               /\ UNCHANGED <<latest_known, max_produced>>
          ELSE
          \E next_block_proposer \in Accounts, epoch_start \in BOOLEAN,
             caught_up \in BOOLEAN :
          LET read == rescheduling_answers(next_height, known_height,
                                           validator_signer, next_block_proposer,
                                           epoch_start, caught_up)
          IN
          IF should_reschedule_block(next_height, known_height, validator_signer,
                                     next_block_proposer, epoch_start, caught_up)
          THEN /\ Return(NoBlock("none"), 0, <<>>, <<>>, read)
               /\ UNCHANGED <<latest_known, max_produced>>
          ELSE
          \E key_matches \in BOOLEAN :
          LET answers == [read EXCEPT !.key_matches = Answer(key_matches)] IN
          IF \/ (~key_matches
                  /\ (~adv_produce_blocks \/ adv_produce_blocks_only_valid))
             \/ (~produce_empty_blocks /\ new_chunks = {})
          THEN /\ Return(NoBlock("none"), 0, <<>>, <<>>, answers)
               /\ UNCHANGED <<latest_known, max_produced>>
          ELSE
          \E witness \in witnesses, protocol_version \in {PROTOCOL_VERSION, PROTOCOL_VERSION + 1} :
          LET all_read == [answers EXCEPT !.protocol_version = protocol_version]
          IN
          IF protocol_version_newer(protocol_version)
          THEN /\ Return(NoBlock("panic"), 1, <<>>, <<>>, all_read)
               /\ UNCHANGED <<latest_known, max_produced>>
          ELSE IF fail_at = "assemble"
          THEN /\ Return(NoBlock("err"), 1, <<>>, <<>>, all_read)
               /\ UNCHANGED <<latest_known, max_produced>>
          ELSE
          \E approvers \in approver_lists, timestamp \in timestamps :
          LET block == [height |-> next_height,
                        prev_hash |-> prev_hash,
                        chunks |-> block_chunks(get_prev_chunk_headers(prev_hash),
                                                new_chunks, next_height),
                        approvals |-> block_approvals(approvers, witness),
                        timestamp |-> timestamp]
              r == produce_block_return(fail_at # "save", block)
          IN
          /\ Return(r, 1, IF r.kind = "some" THEN approvers ELSE <<>>,
                    IF r.kind = "some" THEN witness ELSE <<>>, all_read)
          /\ latest_known' =
                 IF fail_at = "save" THEN latest_known
                 ELSE [height |-> next_height, seen |-> timestamp]
          /\ max_produced' =
                 IF r.kind = "some" /\ next_height > max_produced
                 THEN next_height ELSE max_produced

\* ------------------------------------------------------ transaction pool

\* near_chunks::logic::cares_about_shard_this_or_next_epoch: the account is
\* assigned to the shard in this or the next epoch, or (only when the
\* question is about the node itself, is_me) the node tracks the shard by
\* configuration.
cares_about_shard_this_or_next_epoch(account_id, shard_id, is_me) ==
    \/ (account_id # None /\ shard_id \in assigned_shards)
    \/ (is_me /\ shard_id \in tracked_shards)

\* chain.get_chunk(chunk_hash).transactions()
Transactions(chunk_header) == chunk_header.txs

\* ShardedTransactionPool::remove_transactions / reintroduce_transactions /
\* insert_transaction, on the pool of one shard.
remove_transactions(pool, shard_id, txs) ==
    [pool EXCEPT ![shard_id] = @ \ txs]

reintroduce_transactions(pool, shard_id, txs) ==
    [pool EXCEPT ![shard_id] = @ \cup txs]

insert_transaction(pool, shard_id, tx) ==
    [pool EXCEPT ![shard_id] = @ \cup {tx}]

\* The chunk slots of a block in shard order (block.chunks().iter()).
RECURSIVE remove_chunks(_, _, _, _)
remove_chunks(pool, me, block, shards) ==
    IF shards = {} THEN pool
    ELSE LET shard_id == CHOOSE x \in shards : \A y \in shards : x <= y
             chunk_header == block.chunks[shard_id]
             next ==
                 IF /\ block.height = chunk_header.height_included
                    /\ cares_about_shard_this_or_next_epoch(me, shard_id, TRUE)
                 THEN remove_transactions(pool, shard_id,
                                          Transactions(chunk_header))
                 ELSE pool
         IN remove_chunks(next, me, block, shards \ {shard_id})

\* remove_transactions_for_block asking for the account's shards only.
remove_transactions_for_block_assigned(pool, me, block) ==
    [s \in Shards |->
        IF /\ block.height = block.chunks[s].height_included
           /\ cares_about_shard_this_or_next_epoch(me, s, FALSE)
        THEN pool[s] \ Transactions(block.chunks[s])
        ELSE pool[s]]

remove_transactions_for_block(pool, me, block) ==
    remove_chunks(pool, me, block, Shards)

RECURSIVE reintroduce_chunks(_, _, _, _)
reintroduce_chunks(pool, me, block, shards) ==
    IF shards = {} THEN pool
    ELSE LET shard_id == CHOOSE x \in shards : \A y \in shards : x <= y
             chunk_header == block.chunks[shard_id]
             next ==
                 IF /\ block.height = chunk_header.height_included
                    /\ cares_about_shard_this_or_next_epoch(me, shard_id, FALSE)
                 THEN reintroduce_transactions(pool, shard_id,
                                               Transactions(chunk_header))
                 ELSE pool
         IN reintroduce_chunks(next, me, block, shards \ {shard_id})

reintroduce_transactions_for_block(pool, me, block) ==
    reintroduce_chunks(pool, me, block, Shards)

\* The reorg walk of on_block_accepted.  First inner loop: the branch of
\* the accepted block is followed back while it is higher than the other.
RECURSIVE walk_remove(_, _, _, _)
walk_remove(store, remove_head, reintroduce_head, to_remove) ==
    IF store[remove_head].height > store[reintroduce_head].height
    THEN walk_remove(store, store[remove_head].prev_hash, reintroduce_head,
                     Append(to_remove, remove_head))
    ELSE [head |-> remove_head, list |-> to_remove]

\* Second inner loop: the abandoned branch is followed back while it is
\* higher than the other, or as high with another hash.
RECURSIVE walk_reintroduce(_, _, _, _)
walk_reintroduce(store, remove_head, reintroduce_head, to_reintroduce) ==
    IF \/ store[reintroduce_head].height > store[remove_head].height
       \/ (/\ store[reintroduce_head].height = store[remove_head].height
           /\ reintroduce_head # remove_head)
    THEN walk_reintroduce(store, remove_head, store[reintroduce_head].prev_hash,
                          Append(to_reintroduce, reintroduce_head))
    ELSE [head |-> reintroduce_head, list |-> to_reintroduce]

\* The outer loop: until both heads are the same block.
RECURSIVE reorg_walk(_, _, _, _, _)
reorg_walk(store, remove_head, reintroduce_head, to_remove, to_reintroduce) ==
    IF remove_head = reintroduce_head
    THEN [to_remove |-> to_remove, to_reintroduce |-> to_reintroduce,
          end |-> remove_head]
    ELSE LET r == walk_remove(store, remove_head, reintroduce_head, to_remove)
             i == walk_reintroduce(store, r.head, reintroduce_head, to_reintroduce)
         IN reorg_walk(store, r.head, i.head, r.list, i.list)

RECURSIVE reintroduce_all(_, _, _, _)
reintroduce_all(pool, me, store, hashes) ==
    IF hashes = <<>> THEN pool
    ELSE reintroduce_all(reintroduce_transactions_for_block(pool, me, store[Head(hashes)]),
                         me, store, Tail(hashes))

RECURSIVE remove_all(_, _, _, _)
remove_all(pool, me, store, hashes) ==
    IF hashes = <<>> THEN pool
    ELSE remove_all(remove_transactions_for_block(pool, me, store[Head(hashes)]),
                    me, store, Tail(hashes))

\* Reconcile the txpool against the accepted block (a node with a validator
\* signer only): the pool afterwards.  status is "Next", "Fork" or "Reorg",
\* prev_head the head before the block was accepted.
reconcile_pool(pool, signer, store, block_hash, status, prev_head) ==
    IF signer = None THEN pool
    ELSE IF status = "Next"
    THEN remove_transactions_for_block(pool, signer, store[block_hash])
    ELSE IF status = "Fork" THEN pool
    ELSE LET w == reorg_walk(store, block_hash, prev_head, <<>>, <<>>) IN
         remove_all(reintroduce_all(pool, signer, store, w.to_reintroduce),
                    signer, store, w.to_remove)

\* ------------------------------------------------ transaction ingress

\* The orders in which the members of a set can be visited.
SeqsOf(S) ==
    {q \in [1..Cardinality(S) -> S] :
        \A x \in S : \E i \in 1..Cardinality(S) : q[i] = x}

\* TX_ROUTING_HEIGHT_HORIZON of near_chain, scaled down.
TX_ROUTING_HEIGHT_HORIZON == 2

\* What the chain and the runtime answer during one process_tx.  Epoch ids
\* are counted from head.epoch_id = 0: the epoch of the next block is 1
\* when the next block starts an epoch and 0 otherwise, the epoch after
\* it is one more.  producers[<<epoch, horizon>>] is what
\* find_chunk_producer_for_forwarding finds and next_chunk_producers[i]
\* what get_chunk_producer finds for height head + i, "err" for an Err;
\* the shard layout is taken to be the same in both epochs.  An answer is
\* a record [next_epoch_started, next_epoch_estimated_height, producers,
\* next_chunk_producers, has_state_root].

\* get_next_epoch_id_if_at_boundary(head): <<>> for None, <<id>> for Some.
get_next_epoch_id_if_at_boundary(answers) ==
    IF answers.next_epoch_started THEN <<>>
    ELSE IF HeadBlock.height + TX_ROUTING_HEIGHT_HORIZON
                >= answers.next_epoch_estimated_height
    THEN <<1>>
    ELSE <<>>

\* forward_tx sending to the chunk producers of the given epoch alone.
forward_tx_one_epoch(epoch_id, tx, answers) ==
    LET found == {answers.producers[<<epoch_id, h>>] :
                    h \in (2..TX_ROUTING_HEIGHT_HORIZON)
                             \cup {TX_ROUTING_HEIGHT_HORIZON * 2}}
    IN IF "err" \in found THEN {[ok |-> FALSE, requests |-> <<>>]}
       ELSE {[ok |-> TRUE,
              requests |-> [i \in DOMAIN q |->
                  [type |-> "ForwardTx", account_id |-> q[i], tx |-> tx]]] :
                q \in SeqsOf(found \ {validator_signer})}

\* forward_tx(epoch_id, tx): the chunk producers of the shard at the
\* horizons 2..=H and 2H under epoch_id, and under the next epoch when the
\* head is at the boundary, are gathered in a HashSet, this node is taken
\* out, and one ForwardTx goes to each in any order the set can give; not
\* ok, and nothing sent, when a lookup failed.
forward_tx(epoch_id, tx, answers) ==
    LET epochs == {epoch_id} \cup
                  {e \in {1} : get_next_epoch_id_if_at_boundary(answers) = <<e>>}
        found == {answers.producers[<<e, h>>] :
                    e \in epochs,
                    h \in (2..TX_ROUTING_HEIGHT_HORIZON)
                             \cup {TX_ROUTING_HEIGHT_HORIZON * 2}}
    IN IF "err" \in found THEN {[ok |-> FALSE, requests |-> <<>>]}
       ELSE {[ok |-> TRUE,
              requests |-> [i \in DOMAIN q |->
                  [type |-> "ForwardTx", account_id |-> q[i], tx |-> tx]]] :
                q \in SeqsOf(found \ {validator_signer})}

\* possibly_forward_tx_to_next_epoch forwarding at the boundary only.
possibly_forward_tx_at_boundary_only(tx, answers) ==
    IF get_next_epoch_id_if_at_boundary(answers) # <<>>
    THEN forward_tx(get_next_epoch_id_if_at_boundary(answers)[1], tx, answers)
    ELSE {[ok |-> TRUE, requests |-> <<>>]}

\* possibly_forward_tx_to_next_epoch(tx): forward_tx under the next epoch
\* at the boundary, under head.epoch_id otherwise.
possibly_forward_tx_to_next_epoch(tx, answers) ==
    IF get_next_epoch_id_if_at_boundary(answers) # <<>>
    THEN forward_tx(get_next_epoch_id_if_at_boundary(answers)[1], tx, answers)
    ELSE forward_tx(0, tx, answers)

\* active_validator(shard_id): "yes" when this node is the chunk producer
\* of the shard at one of the next TX_ROUTING_HEIGHT_HORIZON heights, "no"
\* when it is not or has no signer, "err" when a lookup failed first.
active_validator(answers) ==
    LET hits == {i \in 1..TX_ROUTING_HEIGHT_HORIZON :
                    answers.next_chunk_producers[i] \in {validator_signer, "err"}}
    IN IF validator_signer = None \/ hits = {} THEN "no"
       ELSE IF answers.next_chunk_producers[CHOOSE i \in hits :
                                               \A j \in hits : i <= j] = "err"
       THEN "err"
       ELSE "yes"

\* process_tx_internal not recording the transaction.
recorded_pool_unchanged(pool, shard_id, tx) == pool

\* The pool after process_tx_internal recorded the transaction.
recorded_pool(pool, shard_id, tx) == insert_transaction(pool, shard_id, tx)

\* untracked_response routing a transaction whether or not it was forwarded.
untracked_response_rerouted(is_forwarded, check_only) ==
    IF check_only THEN "DoesNotTrackShard" ELSE "RequestRouted"

\* untracked_response not looking at check_only.
untracked_response_unchecked(is_forwarded, check_only) ==
    IF is_forwarded THEN "NoResponse" ELSE "RequestRouted"

\* What process_tx_internal answers on a node that neither cares nor will
\* care about the shard of the transaction; RequestRouted after forward_tx.
untracked_response(is_forwarded, check_only) ==
    IF check_only THEN "DoesNotTrackShard"
    ELSE IF is_forwarded THEN "NoResponse"
    ELSE "RequestRouted"

\* Answers far from an epoch boundary: alice and bob produce the chunks
\* at the forwarding horizons, or that lookup fails; the next chunks are
\* all of alice or all of bob; the state root of the head is there or not.
AnswersInEpoch ==
    [next_epoch_started : {FALSE}, next_epoch_estimated_height : {3 * MaxHeight},
     producers : {[k \in (0..2) \X {2, TX_ROUTING_HEIGHT_HORIZON * 2} |->
                     IF k[2] = 2 THEN first ELSE "bob"] : first \in {"alice", "err"}},
     next_chunk_producers : {[i \in 1..TX_ROUTING_HEIGHT_HORIZON |-> a] : a \in Accounts},
     has_state_root : BOOLEAN]

\* process_tx(tx, is_forwarded, check_only).  The answers of the chain and
\* the runtime are drawn where the code asks for them: period_ok
\* (check_transaction_validity_period), basic_ok and state_ok (the two
\* validate_tx), the others as one of chain_answers.  An Err of
\* process_tx_internal is answered with NoResponse.
process_tx(tx, is_forwarded, check_only, chain_answers) ==
    \E answers \in chain_answers :
    LET me == validator_signer
        shard_id == ShardOf(tx)
        epoch_id == IF answers.next_epoch_started THEN 1 ELSE 0
        Respond(kind, pool, requests) ==
            /\ sharded_tx_pool' = pool
            /\ network_requests' = requests
            /\ last_result' = [op |-> "process_tx", kind |-> kind, tx |-> tx,
                               is_forwarded |-> is_forwarded,
                               check_only |-> check_only,
                               pool_before |-> sharded_tx_pool,
                               answers |-> answers]
        Forward(sending, pool, response) ==
            \E sent \in sending :
               IF ~sent.ok THEN Respond("NoResponse", pool, <<>>)
               ELSE Respond(response, pool, sent.requests)
    IN
    /\ last_result.kind # "panic"
    /\ UNCHANGED db_vars
    /\ UNCHANGED <<pending_approvals, tier1_accounts_cache, state_sync_infos, catchup_state_syncs>>
    /\ UNCHANGED ingress_vars
    /\ UNCHANGED stall_vars
    /\ UNCHANGED <<blocks, head, latest_known, adv_produce_blocks,
                   adv_produce_blocks_only_valid, validator_signer,
                   produce_empty_blocks, ready, ready_lru,
                   doomslug_tip, assigned_shards,
                   tracked_shards, is_syncing, max_produced, adv_used>>
    /\ \E period_ok \in BOOLEAN :
       IF ~period_ok THEN Respond("InvalidTx", sharded_tx_pool, <<>>)
       ELSE
       \E basic_ok \in BOOLEAN :
       IF ~basic_ok THEN Respond("InvalidTx", sharded_tx_pool, <<>>)
       ELSE IF cares_about_shard_this_or_next_epoch(me, shard_id, TRUE)
       THEN IF ~answers.has_state_root
            THEN IF is_forwarded
                 THEN Respond("NoResponse", sharded_tx_pool, <<>>)
                 ELSE Forward(forward_tx(epoch_id, tx, answers),
                              sharded_tx_pool, "RequestRouted")
            ELSE
            \E state_ok \in BOOLEAN :
            IF ~state_ok THEN Respond("InvalidTx", sharded_tx_pool, <<>>)
            ELSE IF check_only THEN Respond("ValidTx", sharded_tx_pool, <<>>)
            ELSE IF active_validator(answers) = "err"
            THEN Respond("NoResponse", sharded_tx_pool, <<>>)
            ELSE
            LET pool == recorded_pool(sharded_tx_pool, shard_id, tx) IN
            IF active_validator(answers) = "yes"
            THEN IF ~is_forwarded
                 THEN Forward(possibly_forward_tx_to_next_epoch(tx, answers),
                              pool, "ValidTx")
                 ELSE Respond("ValidTx", pool, <<>>)
            ELSE IF ~is_forwarded
            THEN Forward(forward_tx(epoch_id, tx, answers), pool, "RequestRouted")
            ELSE Respond("NoResponse", pool, <<>>)
       ELSE IF untracked_response(is_forwarded, check_only) = "RequestRouted"
       THEN Forward(forward_tx(epoch_id, tx, answers),
                    sharded_tx_pool, "RequestRouted")
       ELSE Respond(untracked_response(is_forwarded, check_only),
                    sharded_tx_pool, <<>>)

\* --------------------------------------------------- accepting a block

\* The transactions the chain of `hash` already holds, down to genesis.
RECURSIVE ChainTxs(_, _)
ChainTxs(store, hash) ==
    IF hash = DefaultHash THEN {}
    ELSE UNION {Transactions(store[hash].chunks[s]) : s \in Shards}
             \cup ChainTxs(store, store[hash].prev_hash)

\* A block a producer builds on `prev`: the shards in `fresh` get a new
\* chunk holding their part of `txs`, the others carry the header of prev.
NewBlock(prev, height, fresh, txs) ==
    [prev_hash |-> prev, height |-> height,
     chunks |-> [s \in Shards |->
                    IF s \in fresh
                    THEN ChunkHeader(s, prev, {t \in txs : ShardOf(t) = s}, height)
                    ELSE blocks[prev].chunks[s]],
     last_final_block |->
         IF /\ height = blocks[prev].height + 1
            /\ blocks[prev].last_ds_final_block = blocks[prev].prev_hash
         THEN blocks[prev].prev_hash
         ELSE blocks[prev].last_final_block,
     last_ds_final_block |->
         IF height = blocks[prev].height + 1 THEN prev
         ELSE blocks[prev].last_ds_final_block]

\* The hash the next block of the model gets: the smallest unused one.
FreshHash ==
    CHOOSE h \in 1..(Cardinality(DOMAIN blocks) + 1) :
        /\ h \notin DOMAIN blocks
        /\ \A g \in 1..h : g \notin DOMAIN blocks => g = h

\* The chain's verdict on an accepted block: it extends the head (Next),
\* it is higher than the head on another branch (Reorg), or neither (Fork).
BlockStatus(prev, height) ==
    IF prev = head THEN "Next"
    ELSE IF height > HeadBlock.height THEN "Reorg"
    ELSE "Fork"

EmptyMap == [x \in {} |-> {}]
\* ----------------------------------------------------------- approvals

\* The runtime's view of epochs and validators.  The block after a parent
\* of height h is of epoch h and the epoch after that one is h + 1; alice
\* is a validator of the epochs 0 to 2, bob of the epochs from 2 on, carol
\* of every epoch and slashed; the block producer of a height is alice for
\* an odd height and bob for an even one.
EpochValidators(epoch_id) ==
    (IF epoch_id <= 2 THEN {"alice"} ELSE {}) \cup (IF epoch_id >= 2 THEN {"bob"} ELSE {}) \cup {"carol"}

\* verify_validator_signature: the signer is a validator of the epoch, not
\* slashed, and signed with its key of that epoch.  A signature names the
\* epoch whose key made it.
verify_validator_signature(epoch_id, account_id, signature) ==
    account_id \in EpochValidators(epoch_id) \ {"carol"} /\ signature = epoch_id

\* chain.get_block_header_by_height: the hash of the block of that height
\* on the branch of the head, DefaultHash when there is none.
RECURSIVE get_block_header_by_height(_, _, _)
get_block_header_by_height(store, hash, height) ==
    IF hash = DefaultHash \/ store[hash].height < height THEN DefaultHash
    ELSE IF store[hash].height = height THEN hash
    ELSE get_block_header_by_height(store, store[hash].prev_hash, height)

\* Capacity of pending_approvals: the number of block producer seats.
num_block_producer_seats == 2

\* The approvals parked in pending_approvals under a key.
parked(cache, inner) ==
    UNION {cache[i].entry : i \in {k \in DOMAIN cache : cache[k].inner = inner}}

\* pending_approvals.pop(inner).
pending_pop(cache, inner) ==
    LET IsOther(e) == e.inner # inner IN SelectSeq(cache, IsOther)

\* The parking over a cache without a capacity: no key is ever lost.
park_unbounded(cache, approval, approval_type) ==
    LET entry == {a \in parked(cache, approval.inner) : a.approval.account_id # approval.account_id}
                     \cup {[approval |-> approval, approval_type |-> approval_type]}
    IN Append(pending_pop(cache, approval.inner), [inner |-> approval.inner, entry |-> entry])

\* The parking that keeps the signer's former approvals next to the new one.
park_added(cache, approval, approval_type) ==
    LET entry == parked(cache, approval.inner)
                     \cup {[approval |-> approval, approval_type |-> approval_type]}
        others == pending_pop(cache, approval.inner)
    IN Append(IF Len(others) >= num_block_producer_seats THEN Tail(others) ELSE others,
              [inner |-> approval.inner, entry |-> entry])

\* The parking of handle_process_approval_error: the entry of the key is
\* popped, gets the approval in place of the signer's former one, and is
\* put back as the most recent; a full cache loses its least recent key.
park(cache, approval, approval_type) ==
    LET entry == {a \in parked(cache, approval.inner) : a.approval.account_id # approval.account_id}
                     \cup {[approval |-> approval, approval_type |-> approval_type]}
        others == pending_pop(cache, approval.inner)
    IN Append(IF Len(others) >= num_block_producer_seats THEN Tail(others) ELSE others,
              [inner |-> approval.inner, entry |-> entry])

\* handle_process_approval_error parking whatever the signer.
handle_process_approval_error_unchecked(store, head_hash, approval, check_validator, error) ==
    IF error = "DBNotFoundErr" THEN "park" ELSE "drop"

\* handle_process_approval_error: park on DBNotFoundErr, after the check
\* that the signer is a validator, not slashed, of the head's epoch or of
\* the next one when check_validator is set; drop on any other error.
handle_process_approval_error(store, head_hash, approval, check_validator, error) ==
    LET epoch_id == IF store[head_hash].prev_hash = DefaultHash THEN 0
                    ELSE store[store[head_hash].prev_hash].height
        is_validator(e) == approval.account_id \in EpochValidators(e) \ {"carol"}
    IN IF error # "DBNotFoundErr" THEN "drop"
       ELSE IF check_validator /\ ~is_validator(epoch_id) /\ ~is_validator(epoch_id + 1)
       THEN "drop"
       ELSE "park"

\* The epoch collect_block_approval verifies a peer's signature under:
\* always the epoch after the next block's; the next block's if the signer
\* is a validator of it and the one after otherwise.
validator_epoch_id_following(next_block_epoch_id, account_id) == next_block_epoch_id + 1

validator_epoch_id(next_block_epoch_id, account_id) ==
    IF account_id \in EpochValidators(next_block_epoch_id) THEN next_block_epoch_id
    ELSE next_block_epoch_id + 1

\* is_block_producer of collect_block_approval, for a node that takes
\* itself for the producer of every height.
is_block_producer_always(signer, target_height) == TRUE

is_block_producer(signer, target_height) ==
    signer = (IF target_height % 2 = 1 THEN "alice" ELSE "bob")

\* What collect_block_approval does with an approval: hands it to Doomslug,
\* parks it or drops it.  fault names the lookup that fails, if one does:
\* the parent or the epoch with another error than DBNotFoundErr, the
\* header of the parent with DBNotFoundErr, or the approvers.
collect_block_approval_outcome(store, head_hash, signer, approval, approval_type, fault) ==
    LET by_height == get_block_header_by_height(store, head_hash, approval.inner.of)
        parent_hash == IF approval.inner.kind = "Endorsement" THEN approval.inner.of
                       ELSE by_height
        next_block_epoch_id == store[parent_hash].height
    IN IF approval.inner.kind = "Skip" /\ (fault = "parent" \/ by_height = DefaultHash)
       THEN handle_process_approval_error(store, head_hash, approval, TRUE,
                IF fault = "parent" THEN "Other" ELSE "DBNotFoundErr")
       ELSE IF fault = "epoch" \/ parent_hash \notin DOMAIN store
       THEN handle_process_approval_error(store, head_hash, approval, TRUE,
                IF fault = "epoch" THEN "Other" ELSE "DBNotFoundErr")
       ELSE IF /\ approval_type = "PeerApproval"
               /\ ~verify_validator_signature(
                       validator_epoch_id(next_block_epoch_id, approval.account_id),
                       approval.account_id, approval.signature)
       THEN "drop"
       ELSE IF ~is_block_producer(signer, approval.target_height)
       THEN IF fault = "header"
            THEN handle_process_approval_error(store, head_hash, approval, FALSE, "DBNotFoundErr")
            ELSE "drop"
       ELSE IF fault = "approvers" THEN "drop"
       ELSE "doomslug"

\* collect_block_approval(approval, approval_type).
collect_block_approval(approval, approval_type, fault) ==
    LET outcome == collect_block_approval_outcome(blocks, head, validator_signer,
                                                  approval, approval_type, fault)
    IN
    /\ last_result.kind # "panic"
    /\ pending_approvals' = IF outcome = "park"
                            THEN park(pending_approvals, approval, approval_type)
                            ELSE pending_approvals
    /\ last_result' = [op |-> "collect_block_approval", kind |-> "ok",
                       approval |-> approval, approval_type |-> approval_type,
                       fault |-> fault, outcome |-> outcome,
                       replaced |-> IF outcome # "park" THEN {}
                                    ELSE {a \in parked(pending_approvals, approval.inner) :
                                             a.approval.account_id = approval.account_id}]
    /\ network_requests' = <<>>
    /\ UNCHANGED <<tier1_accounts_cache, state_sync_infos, catchup_state_syncs>>
    /\ UNCHANGED db_vars
    /\ UNCHANGED ingress_vars
    /\ UNCHANGED stall_vars
    /\ UNCHANGED <<blocks, head, latest_known, adv_produce_blocks,
                   adv_produce_blocks_only_valid, validator_signer,
                   produce_empty_blocks, ready, ready_lru,
                   doomslug_tip, sharded_tx_pool,
                   assigned_shards, tracked_shards, is_syncing, max_produced,
                   adv_used>>

\* The approvals on_block_accepted takes out of pending_approvals for a
\* block: those under its endorsement and under the skip of its height,
\* for a block of no provenance only.
drained_always(cache, block_hash, height, provenance) ==
    parked(cache, [kind |-> "Endorsement", of |-> block_hash])
        \cup parked(cache, [kind |-> "Skip", of |-> height])

drained(cache, block_hash, height, provenance) ==
    IF provenance = "NONE"
    THEN parked(cache, [kind |-> "Endorsement", of |-> block_hash])
             \cup parked(cache, [kind |-> "Skip", of |-> height])
    ELSE {}

\* pending_approvals after on_block_accepted: the two keys are popped and
\* each approval taken out goes through collect_block_approval again, the
\* endorsements first, which may park it anew.
RECURSIVE park_all(_, _)
park_all(cache, approvals) ==
    IF approvals = {} THEN cache
    ELSE LET a == CHOOSE x \in approvals : TRUE IN
         park_all(park(cache, a.approval, a.approval_type), approvals \ {a})

pending_after_accepted(store, head_hash, signer, cache, block_hash, height, provenance) ==
    LET out == drained(cache, block_hash, height, provenance)
        again(kind) == {a \in out : /\ a.approval.inner.kind = kind
                                    /\ collect_block_approval_outcome(store, head_hash, signer, a.approval, a.approval_type, "none") = "park"}
        popped == IF provenance = "NONE"
                  THEN pending_pop(pending_pop(cache, [kind |-> "Endorsement", of |-> block_hash]),
                                   [kind |-> "Skip", of |-> height])
                  ELSE cache
    IN park_all(park_all(popped, again("Endorsement")), again("Skip"))

\* get_tier1_accounts serving what it cached first, whatever the epoch.
get_tier1_accounts_cached_once(store, tip, cache) ==
    LET epoch_id == store[store[tip].prev_hash].height
        chunk_producers(e) == IF e % 2 = 0 THEN {"alice"} ELSE {"dave"}
        accounts == UNION {{<<e, a>> : a \in chunk_producers(e) \cup EpochValidators(e)} :
                              e \in {epoch_id, epoch_id + 1}}
    IN IF cache # <<>>
       THEN [accounts |-> cache[1].accounts, cache |-> cache, recomputed |-> FALSE]
       ELSE [accounts |-> accounts, recomputed |-> TRUE,
             cache |-> <<[epoch_id |-> epoch_id, accounts |-> accounts]>>]

\* get_tier1_accounts(tip): the accounts, each with its epoch, that produce
\* chunks or blocks in the epoch of the tip and in the next one; taken from
\* the cache when it was filled for the epoch of the tip, else computed
\* and cached.  The runtime's lookups for the two epochs are taken to
\* answer; the chunk producers of an epoch are alice for an even epoch and
\* dave for an odd one, the block producers its validators.
get_tier1_accounts(store, tip, cache) ==
    LET epoch_id == store[store[tip].prev_hash].height
        chunk_producers(e) == IF e % 2 = 0 THEN {"alice"} ELSE {"dave"}
        accounts == UNION {{<<e, a>> : a \in chunk_producers(e) \cup EpochValidators(e)} :
                              e \in {epoch_id, epoch_id + 1}}
    IN IF cache # <<>> /\ cache[1].epoch_id = epoch_id
       THEN [accounts |-> cache[1].accounts, cache |-> cache, recomputed |-> FALSE]
       ELSE [accounts |-> accounts, recomputed |-> TRUE,
             cache |-> <<[epoch_id |-> epoch_id, accounts |-> accounts]>>]

\* send_network_chain_info(): the SetChainInfo handed to the network
\* adapter for the head `tip`, with the cache get_tier1_accounts leaves.
send_network_chain_info(store, tip, cache) ==
    LET tier1 == get_tier1_accounts(store, tip, cache) IN
    [cache |-> tier1.cache, recomputed |-> tier1.recomputed,
     sent |-> <<[type |-> "SetChainInfo", height |-> store[tip].height,
                 tracked_shards |-> IF tracked_shards = {} THEN {} ELSE Shards,
                 tier1_accounts |-> tier1.accounts]>>]

\* The readiness cache after the chunks this node produced on top of the
\* accepted block went through persist_and_distribute_encoded_chunk.
RECURSIVE ready_after_produced(_, _, _, _)
ready_after_produced(cache, block_hash, produced, shards) ==
    IF shards = {} THEN cache
    ELSE LET s == CHOOSE x \in shards : \A y \in shards : x <= y IN
         ready_after_produced(
             ReadyInsert(cache, ChunkHeader(s, block_hash, produced[s], 0)),
             block_hash, produced, shards \ {s})

\* postprocess_ready_blocks for one block whose chunks were applied: the
\* chain stores it, moves the head, collects garbage up to new_tail and
\* takes the orphans waiting for it into processing; then
\* on_block_accepted_with_optional_chunk_produce runs and the time of the
\* last head progress is brought up to the chain's.  block_hash, prev,
\* height, fresh and txs describe the block; produced maps each shard for
\* which this node is the next chunk producer, and produce_chunk gave a
\* chunk, to the transactions prepare_transactions picked.
postprocess_ready_blocks(block_hash, prev, height, fresh, txs, now, provenance, should_produce_chunk, produced, new_tail) ==
    LET block == NewBlock(prev, height, fresh, txs)
        store == [h \in DOMAIN blocks \cup {block_hash} |->
                     IF h = block_hash THEN block ELSE blocks[h]]
        status == BlockStatus(prev, height)
        new_head == IF status = "Fork" THEN head ELSE block_hash
        pool == reconcile_pool(sharded_tx_pool, validator_signer, store,
                               block_hash, status, head)
        produces == /\ validator_signer # None
                    /\ status # "Fork"
                    /\ provenance # "SYNC"
                    /\ ~is_syncing
                    /\ should_produce_chunk
        waiting == {o \in orphans : o.prev_hash = block_hash}
        head_updated == IF status = "Fork" THEN last_time_head_updated
                        ELSE clock
    IN
    /\ last_result.kind # "panic"
    /\ UNCHANGED db_vars
    /\ block_hash \notin DOMAIN blocks
    /\ prev \in DOMAIN blocks
    /\ height > blocks[prev].height
    /\ \A t \in txs : ShardOf(t) \in fresh
    /\ txs \cap ChainTxs(blocks, prev) = {}
    /\ IF produces
       THEN \A s \in DOMAIN produced : produced[s] \subseteq pool[s]
       ELSE DOMAIN produced = {}
    /\ new_tail >= tail
    /\ new_tail <= store[new_head].height
    /\ status = "Fork" => new_tail = tail
    /\ blocks' = store
    /\ head' = new_head
    /\ latest_known' = try_save_latest_known(height, now)
    /\ tail' = new_tail
    /\ processed_heights' = processed_heights \cup {height}
    /\ in_processing' = {b \in in_processing : b.hash # block_hash} \cup waiting
    /\ orphans' = orphans \ waiting
    /\ doomslug_tip' = check_and_update_doomslug_tip(store, new_head, doomslug_tip)
    /\ pending_approvals' = pending_after_accepted(store, new_head, validator_signer, pending_approvals,
                                                   block_hash, height, provenance)
    /\ sharded_tx_pool' = pool
    /\ tier1_accounts_cache' =
           IF status = "Fork" THEN tier1_accounts_cache
           ELSE send_network_chain_info(store, new_head, tier1_accounts_cache).cache
    /\ UNCHANGED <<state_sync_infos, catchup_state_syncs>>
    /\ ready_lru' = IF DOMAIN produced = {} THEN ready_lru
                    ELSE ready_touch(ready_lru, block_hash)
    /\ ready' = ready_kept(ready_after_produced(ready, block_hash, produced, DOMAIN produced),
                           ready_lru')
    /\ network_requests' = <<>>
    /\ last_result' = [op |-> "on_block_accepted", kind |-> "ok",
                       block_hash |-> block_hash, status |-> status,
                       prev_head |-> head, pool_before |-> sharded_tx_pool,
                       provenance |-> provenance,
                       chain_info |->
                           IF status = "Fork" THEN <<>>
                           ELSE send_network_chain_info(store, new_head, tier1_accounts_cache).sent,
                       tier1_recomputed |->
                           status # "Fork" /\ send_network_chain_info(store, new_head, tier1_accounts_cache).recomputed,
                       pending_before |-> pending_approvals,
                       to_doomslug |-> {a \in drained(pending_approvals, block_hash, height, provenance) :
                                           collect_block_approval_outcome(store, new_head, validator_signer, a.approval, a.approval_type, "none") = "doomslug"}]
    /\ last_time_head_updated' = head_updated
    /\ last_time_head_progress_made' =
           IF head_updated > last_time_head_progress_made THEN head_updated
           ELSE last_time_head_progress_made
    /\ UNCHANGED <<adv_produce_blocks, adv_produce_blocks_only_valid,
                   validator_signer, produce_empty_blocks, assigned_shards,
                   tracked_shards, is_syncing, rebroadcasted_blocks,
                   clock, max_produced, adv_used, sent_in_window>>

\* produce_chunk stops with Error::ChunkProducer when the next block starts
\* an epoch and the previous block is not caught up; variant without the
\* check.
prev_block_not_caught_up_ignored(epoch_start, caught_up) == FALSE

prev_block_not_caught_up(epoch_start, caught_up) == epoch_start /\ ~caught_up

\* prepare_transactions putting nothing back into the pool.
prepared_pool_drained(pool, shard_id, pulled, transactions) ==
    remove_transactions(pool, shard_id, pulled)

\* The pool after prepare_transactions: the iterator took the pulled
\* transactions out of the pool of the shard, the runtime returned some of
\* them, and those are reintroduced.
prepared_pool(pool, shard_id, pulled, transactions) ==
    reintroduce_transactions(remove_transactions(pool, shard_id, pulled), shard_id, transactions)

\* produce_chunk(prev_block_hash, epoch_id, last_header, next_height,
\* shard_id): chunk_proposer, epoch_start and caught_up are the answers of
\* the runtime and the chain, pulled the transactions the pool iterator
\* gave to the runtime and transactions those the runtime returned.  fault
\* names the lookup that fails, if one does: the chunk producer (which is
\* unwrapped), the epoch start, the chunk extra, the runtime preparing the
\* transactions, the outgoing receipts.
produce_chunk(prev_block_hash, next_height, shard_id, chunk_proposer, epoch_start, caught_up, fault, pulled, transactions) ==
    LET Return(kind, pool, txs) ==
            /\ sharded_tx_pool' = pool
            /\ last_result' = [op |-> "produce_chunk", kind |-> kind,
                               prev_block_hash |-> prev_block_hash,
                               shard_id |-> shard_id,
                               chunk_proposer |-> chunk_proposer,
                               epoch_start |-> epoch_start,
                               caught_up |-> caught_up, fault |-> fault,
                               transactions |-> txs,
                               pool_before |-> sharded_tx_pool]
    IN
    /\ last_result.kind # "panic"
    /\ pulled \subseteq sharded_tx_pool[shard_id]
    /\ transactions \subseteq pulled
    /\ network_requests' = <<>>
    /\ UNCHANGED db_vars
    /\ UNCHANGED <<pending_approvals, tier1_accounts_cache, state_sync_infos, catchup_state_syncs>>
    /\ UNCHANGED ingress_vars
    /\ UNCHANGED stall_vars
    /\ UNCHANGED <<blocks, head, latest_known, adv_produce_blocks,
                   adv_produce_blocks_only_valid, validator_signer,
                   produce_empty_blocks, ready, ready_lru, doomslug_tip,
                   assigned_shards, tracked_shards, is_syncing, max_produced,
                   adv_used>>
    /\ IF validator_signer = None
       THEN Return("err_chunk_producer", sharded_tx_pool, {})
       ELSE IF fault = "chunk_producer"
       THEN Return("panic", sharded_tx_pool, {})
       ELSE IF validator_signer # chunk_proposer
       THEN Return("none", sharded_tx_pool, {})
       ELSE IF fault = "epoch" \/ (epoch_start /\ prev_block_hash \notin DOMAIN blocks)
       THEN Return("err", sharded_tx_pool, {})
       ELSE IF prev_block_not_caught_up(epoch_start, caught_up)
       THEN Return("err_chunk_producer", sharded_tx_pool, {})
       ELSE IF fault = "chunk_extra"
       THEN Return("err_chunk_producer", sharded_tx_pool, {})
       ELSE IF prev_block_hash \notin DOMAIN blocks
       THEN Return("err", sharded_tx_pool, {})
       ELSE IF fault = "prepare"
       THEN Return("err", remove_transactions(sharded_tx_pool, shard_id, pulled), {})
       ELSE IF fault = "receipts"
       THEN Return("err", prepared_pool(sharded_tx_pool, shard_id, pulled, transactions), {})
       ELSE Return("some", prepared_pool(sharded_tx_pool, shard_id, pulled, transactions),
                   transactions)

\* The shards manager reports a chunk header whose chunk is complete.
on_chunk_header_ready_for_inclusion(chunk_header) ==
    /\ last_result.kind # "panic"
    /\ UNCHANGED db_vars
    /\ UNCHANGED <<pending_approvals, tier1_accounts_cache, state_sync_infos, catchup_state_syncs>>
    /\ ready_lru' = ready_touch(ready_lru, chunk_header.prev_block_hash)
    /\ ready' = ready_kept(ReadyInsert(ready, chunk_header), ready_lru')
    /\ last_result' = NoResult
    /\ network_requests' = <<>>
    /\ UNCHANGED ingress_vars
    /\ UNCHANGED stall_vars
    /\ UNCHANGED <<blocks, head, latest_known, adv_produce_blocks,
                   adv_produce_blocks_only_valid, validator_signer,
                   produce_empty_blocks, doomslug_tip, sharded_tx_pool,
                   assigned_shards, tracked_shards, is_syncing, max_produced,
                   adv_used>>

\* The adversarial controls are set from outside (test_features).
set_adv_controls(produce, only_valid) ==
    /\ last_result.kind # "panic"
    /\ UNCHANGED db_vars
    /\ UNCHANGED <<pending_approvals, tier1_accounts_cache, state_sync_infos, catchup_state_syncs>>
    /\ adv_produce_blocks' = produce
    /\ adv_produce_blocks_only_valid' = only_valid
    /\ adv_used' = (adv_used \/ produce \/ only_valid)
    /\ last_result' = NoResult
    /\ network_requests' = <<>>
    /\ UNCHANGED ingress_vars
    /\ UNCHANGED stall_vars
    /\ UNCHANGED <<blocks, head, latest_known, validator_signer,
                   produce_empty_blocks, ready, ready_lru,
                   doomslug_tip, sharded_tx_pool,
                   assigned_shards, tracked_shards, is_syncing, max_produced>>

\* The process stops (a crash, a panic, a shutdown) and Client::new runs
\* again on the same chain store and configuration.
Restart ==
    /\ adv_produce_blocks' = FALSE
    /\ adv_produce_blocks_only_valid' = FALSE
    /\ ready' = {}
    /\ ready_lru' = <<>>
    /\ doomslug_tip' = DefaultDoomslugTip
    /\ sharded_tx_pool' = [s \in Shards |-> {}]
    /\ is_syncing' = FALSE
    /\ orphans' = {}
    /\ in_processing' = {}
    /\ rebroadcasted_blocks' = <<>>
    /\ last_time_head_progress_made' = clock
    /\ last_time_head_updated' = clock
    /\ sent_in_window' = {}
    /\ network_requests' = <<>>
    /\ last_result' = NoResult
    /\ UNCHANGED <<blocks, head, latest_known, validator_signer,
                   produce_empty_blocks, assigned_shards, tracked_shards,
                   processed_heights, tail, clock, max_produced, adv_used>>
    /\ UNCHANGED db_vars
    /\ pending_approvals' = <<>>
    /\ tier1_accounts_cache' = <<>>
    /\ catchup_state_syncs' = EmptyMap
    /\ UNCHANGED state_sync_infos

\* ------------------------------------------------------- block ingress

\* A block as it arrives from a peer.  Its hash spells the heights of its
\* branch, so a hash stands for one block; a forged block (its header does
\* not verify) has another hash than the block it imitates.
IngressBlock(prev, height, forged) ==
    [hash |-> prev * 10 + height + (IF forged THEN 5 ELSE 0),
     prev_hash |-> prev, height |-> height, forged |-> forged]

\* chain.is_orphan, chain.block_exists, chain.is_height_processed
is_orphan(hash) == \E o \in orphans : o.hash = hash
block_exists(hash) == hash \in DOMAIN blocks
is_height_processed(height) == height \in processed_heights

\* check_block_height without the check against the tail.
check_block_height_behind_tail(block, was_requested) ==
    IF block.height >= Tip.height + BLOCK_HORIZON /\ is_syncing /\ ~was_requested
    THEN FALSE
    ELSE ~(/\ ~was_requested
           /\ block.prev_hash # Tip.last_block_hash
           /\ is_height_processed(block.height))

\* check_block_height without the check of the processed heights.
check_block_height_unprocessed(block, was_requested) ==
    IF block.height >= Tip.height + BLOCK_HORIZON /\ is_syncing /\ ~was_requested
    THEN FALSE
    ELSE block.height >= tail

\* To protect ourselves from spamming, we do some pre-check on block height
\* before we do any processing: true if the block height is valid.
check_block_height(block, was_requested) ==
    IF block.height >= Tip.height + BLOCK_HORIZON /\ is_syncing /\ ~was_requested
    THEN FALSE
    ELSE IF block.height < tail THEN FALSE
    ELSE IF /\ ~was_requested
            /\ block.prev_hash # Tip.last_block_hash
            /\ is_height_processed(block.height)
    THEN FALSE
    ELSE TRUE

\* process_block_header taking a forged block for a good one.
process_block_header_lenient(block) ==
    IF ~block_exists(block.prev_hash) THEN "error" ELSE "ok"

\* chain.process_block_header followed by chain.validate_block: bad data
\* for a forged block, another error while the previous block is missing.
process_block_header(block) ==
    IF block.forged THEN "bad_data"
    ELSE IF ~block_exists(block.prev_hash) THEN "error"
    ELSE "ok"

\* lru::LruCache over block hashes, the least recently used first:
\* contains, get (a hit makes the entry the most recent) and put (the least
\* recent entry leaves a full cache).
lru_contains(cache, hash) == \E i \in DOMAIN cache : cache[i] = hash

lru_get(cache, hash) ==
    LET IsOther(h) == h # hash IN
    IF lru_contains(cache, hash)
    THEN Append(SelectSeq(cache, IsOther), hash)
    ELSE cache

lru_put(cache, hash) ==
    LET IsOther(h) == h # hash
        others == SelectSeq(cache, IsOther)
    IN IF Len(others) >= NUM_REBROADCAST_BLOCKS
       THEN Append(Tail(others), hash)
       ELSE Append(others, hash)

\* rebroadcast_block sending whatever the cache holds.
rebroadcast_block_uncached(block) ==
    <<[type |-> "Block", hash |-> block.hash]>>

\* What rebroadcast_block sends.
rebroadcast_block(block) ==
    IF ~lru_contains(rebroadcasted_blocks, block.hash)
    THEN <<[type |-> "Block", hash |-> block.hash]>>
    ELSE <<>>

\* The hashes a sequence of requests carries as NetworkRequests::Block.
BlocksSent(requests) ==
    {requests[i].hash : i \in {j \in DOMAIN requests : requests[j].type = "Block"}}

\* The history of the blocks sent after a handler sent `requests` and left
\* the cache as `cache`.
sent_in_window_after(requests, cache) ==
    {h \in sent_in_window \cup BlocksSent(requests) : lru_contains(cache, h)}

\* request_block sending whether or not the block exists.
request_block_unchecked(hash, peer_id) ==
    <<[type |-> "BlockRequest", hash |-> hash, peer_id |-> peer_id]>>

\* What request_block sends.
request_block(hash, peer_id) ==
    IF ~block_exists(hash)
    THEN <<[type |-> "BlockRequest", hash |-> hash, peer_id |-> peer_id]>>
    ELSE <<>>

\* What ban_peer sends.
ban_peer(peer_id, ban_reason) ==
    <<[type |-> "BanPeer", peer_id |-> peer_id, ban_reason |-> ban_reason]>>

\* The results chain.start_process_block_async can give for a block: known
\* when it is stored, in processing or an orphan; Orphan when its previous
\* block is missing or, though stored, not caught up; else its chunks are
\* applied, or found to carry invalid proofs.
start_process_block_async(block) ==
    IF \/ block_exists(block.hash)
       \/ is_orphan(block.hash)
       \/ \E b \in in_processing : b.hash = block.hash
    THEN {"BlockKnown"}
    ELSE IF ~block_exists(block.prev_hash) THEN {"Orphan"}
    ELSE {"Ok", "Orphan", "InvalidChunkProofs"}

\* What receive_block does with the result of receive_block_impl: every Err,
\* whatever its kind, is logged and recorded against the block's hash in the
\* chain's blocks_delay_tracker (mark_block_errored); an Ok is not.
mark_block_errored(kind) == kind \in {"banned", "err"}

\* not_too_far_back rebroadcasting requested blocks too.
not_too_far_back_or_requested(block, was_requested, same_epoch) ==
    (Tip.height < block.height \/ same_epoch) /\ ~is_syncing

\* The condition under which verify_and_rebroadcast_block rebroadcasts a
\* block it found valid.
not_too_far_back(block, was_requested, same_epoch) ==
    /\ (Tip.height < block.height \/ same_epoch)
    /\ ~was_requested
    /\ ~is_syncing

\* receive_block(block, peer_id, was_requested): the height gate, the
\* header check with the rebroadcast or the ban, the start of the chain's
\* processing and the request for the previous block of an orphan.
\* same_epoch (the head is in the block's epoch) and the chain's result are
\* drawn where the code asks for them.  The chain marks the height as
\* processed whatever its result.
receive_block(block, peer_id, was_requested) ==
    LET prev_hash == block.prev_hash
        repeat == /\ last_result.op = "receive_block"
                  /\ last_result.block = block
                  /\ last_result.peer_id = peer_id
        Return(kind, result, same_epoch) ==
            last_result' = [op |-> "receive_block", kind |-> kind,
                            result |-> result, block |-> block,
                            same_epoch |-> same_epoch,
                            peer_id |-> peer_id,
                            was_requested |-> was_requested,
                            errored |-> mark_block_errored(kind),
                            repeat |-> repeat]
    IN
    /\ last_result.kind # "panic"
    /\ UNCHANGED db_vars
    /\ UNCHANGED <<pending_approvals, tier1_accounts_cache, state_sync_infos, catchup_state_syncs>>
    /\ UNCHANGED <<blocks, head, latest_known, adv_produce_blocks,
                   adv_produce_blocks_only_valid, validator_signer,
                   produce_empty_blocks, ready, ready_lru,
                   doomslug_tip, sharded_tx_pool,
                   assigned_shards, tracked_shards, is_syncing, tail,
                   clock, last_time_head_progress_made,
                   last_time_head_updated, max_produced, adv_used>>
    /\ IF ~check_block_height(block, was_requested)
       THEN /\ Return("dropped", "none", None)
            /\ network_requests' = <<>>
            /\ UNCHANGED <<orphans, in_processing, processed_heights,
                           rebroadcasted_blocks, sent_in_window>>
       ELSE IF process_block_header(block) = "bad_data"
       THEN /\ Return("banned", "none", None)
            /\ network_requests' = ban_peer(peer_id, "BadBlockHeader")
            /\ UNCHANGED <<orphans, in_processing, processed_heights,
                           rebroadcasted_blocks, sent_in_window>>
       ELSE
       \E same_epoch \in BOOLEAN, result \in start_process_block_async(block) :
       LET rebroadcasts ==
               /\ process_block_header(block) = "ok"
               /\ not_too_far_back(block, was_requested, same_epoch)
           sent_block == IF rebroadcasts THEN rebroadcast_block(block)
                         ELSE <<>>
           cache == IF ~rebroadcasts THEN rebroadcasted_blocks
                    ELSE IF ~lru_contains(rebroadcasted_blocks, block.hash)
                    THEN lru_put(rebroadcasted_blocks, block.hash)
                    ELSE lru_get(rebroadcasted_blocks, block.hash)
           challenge ==
               IF validator_signer # None /\ result = "InvalidChunkProofs"
               THEN <<[type |-> "Challenge", hash |-> block.hash]>>
               ELSE <<>>
           orphan_pool == IF result = "Orphan" THEN orphans \cup {block}
                          ELSE orphans
           request ==
               IF /\ result = "Orphan"
                  /\ ~(\E o \in orphan_pool : o.hash = prev_hash)
               THEN request_block(prev_hash, peer_id)
               ELSE <<>>
       IN
       /\ Return(IF result = "Ok" THEN "ok" ELSE "err", result,
                 IF process_block_header(block) = "ok" /\ Tip.height >= block.height
                 THEN Answer(same_epoch) ELSE None)
       /\ rebroadcasted_blocks' = cache
       /\ sent_in_window' =
              sent_in_window_after(sent_block \o challenge \o request, cache)
       /\ orphans' = orphan_pool
       /\ in_processing' = IF result = "Ok" THEN in_processing \cup {block}
                           ELSE in_processing
       /\ processed_heights' = processed_heights \cup {block.height}
       /\ network_requests' = sent_block \o challenge \o request

\* The sync status changes (the client actor's sync loop).
set_sync_status(syncing) ==
    /\ last_result.kind # "panic"
    /\ UNCHANGED db_vars
    /\ UNCHANGED <<pending_approvals, tier1_accounts_cache, state_sync_infos, catchup_state_syncs>>
    /\ is_syncing' = syncing
    /\ last_result' = NoResult
    /\ network_requests' = <<>>
    /\ UNCHANGED ingress_vars
    /\ UNCHANGED stall_vars
    /\ UNCHANGED <<blocks, head, latest_known, adv_produce_blocks,
                   adv_produce_blocks_only_valid, validator_signer,
                   produce_empty_blocks, ready, ready_lru,
                   doomslug_tip, sharded_tx_pool,
                   assigned_shards, tracked_shards, max_produced, adv_used>>

\* ------------------------------------------------------- head progress

\* check_head_progress_stalled taking any elapsed time for a stall.
head_progress_stalled_always(stall_timeout) == ~is_syncing

\* It has been more than stall_timeout since the head was updated or the
\* head was rebroadcast for a stall, and the client is not syncing.
head_progress_stalled(stall_timeout) ==
    /\ clock > last_time_head_progress_made + stall_timeout
    /\ ~is_syncing

\* check_head_progress_stalled(stall_timeout): rebroadcasts the current head
\* when the head progress stalled.  store_ok: the chain store gave the head
\* and its block.
check_head_progress_stalled(stall_timeout, store_ok) ==
    LET stalled == head_progress_stalled(stall_timeout)
        requests == IF stalled /\ store_ok
                    THEN <<[type |-> "Block", hash |-> head]>>
                    ELSE <<>>
    IN
    /\ last_result.kind # "panic"
    /\ UNCHANGED db_vars
    /\ UNCHANGED <<pending_approvals, tier1_accounts_cache, state_sync_infos, catchup_state_syncs>>
    /\ network_requests' = requests
    /\ last_time_head_progress_made' =
           IF stalled /\ store_ok THEN clock ELSE last_time_head_progress_made
    /\ sent_in_window' = sent_in_window_after(requests, rebroadcasted_blocks)
    /\ last_result' = [op |-> "check_head_progress_stalled",
                       kind |-> IF stalled /\ ~store_ok THEN "err" ELSE "ok",
                       stall_timeout |-> stall_timeout,
                       now |-> clock,
                       progress_before |-> last_time_head_progress_made,
                       head |-> head]
    /\ UNCHANGED ingress_vars
    /\ UNCHANGED <<clock, last_time_head_updated>>
    /\ UNCHANGED <<blocks, head, latest_known, adv_produce_blocks,
                   adv_produce_blocks_only_valid, validator_signer,
                   produce_empty_blocks, ready, ready_lru,
                   doomslug_tip, sharded_tx_pool,
                   assigned_shards, tracked_shards, is_syncing, max_produced,
                   adv_used>>

\* ------------------------------------------------------------- ColdDB

\* Byte strings are sequences of bytes.  An optional byte string is the
\* empty sequence (None) or the sequence of the one byte string (Some).
NoBytes == <<>>
SomeBytes(bytes) == <<bytes>>

\* The columns of DBCol the cold storage is used with.
HeightColumns ==
    {"BlockHeight", "BlockPerHeight", "ChunkHashesByHeight",
     "ProcessedBlockHeights", "HeaderHashesByHeight"}

DBCol == HeightColumns \cup {"State", "Block", "BlockHeader", "Transactions"}

\* DBCol::is_rc: the reference-counted columns.
is_rc(col) == col \in {"State", "Transactions"}

\* ColdDB::is_hot_column.
is_hot_column(col) == col = "BlockHeader"

\* A u64 is kept as its eight base-256 digits, digit i of weight 256^i.
u64_from_le_bytes(bytes) == [i \in 0..7 |-> bytes[i + 1]]
u64_to_be_bytes(num) == [j \in 1..8 |-> num[8 - j]]

\* 1i64.to_le_bytes().
ONE == <<1, 0, 0, 0, 0, 0, 0, 0>>

\* refcount::strip_refcount: the value without its trailing 8-byte count
\* when the count, an i64 in little-endian bytes, is positive (its sign bit
\* is clear and some byte is not zero), else None.
strip_refcount(value) ==
    IF /\ Len(value) >= 8
       /\ value[Len(value)] < 128
       /\ \E i \in Len(value) - 7 .. Len(value) : value[i] # 0
    THEN SomeBytes(SubSeq(value, 1, Len(value) - 8))
    ELSE NoBytes

\* A database (TestDB, RocksDB) is the set of its entries, one per column
\* and key.
db_get_raw_bytes(db, col, key) ==
    IF \E e \in db : e.col = col /\ e.key = key
    THEN SomeBytes((CHOOSE e \in db : e.col = col /\ e.key = key).value)
    ELSE NoBytes

db_set(db, col, key, value) ==
    {e \in db : ~(e.col = col /\ e.key = key)}
        \cup {[col |-> col, key |-> key, value |-> value]}

\* Database::write of the underlying database for the operations ColdDB
\* lets through, applied in the order of the transaction.
RECURSIVE db_write(_, _)
db_write(db, ops) ==
    IF ops = <<>> THEN db
    ELSE db_write(db_set(db, Head(ops).col, Head(ops).key, Head(ops).value), Tail(ops))

\* get_cold_key leaving every key as it is.
get_cold_key_unadjusted(col, key) == [panic |-> FALSE, key |-> NoBytes]

\* get_cold_key(col, key, buffer): the key of the cold database for a key
\* of the hot database, None when the column keeps its keys; it panics on
\* a key of another length than the column's.
get_cold_key(col, key) ==
    IF col \in HeightColumns
    THEN IF Len(key) # 8 THEN [panic |-> TRUE, key |-> NoBytes]
         ELSE [panic |-> FALSE,
               key |-> SomeBytes(u64_to_be_bytes(u64_from_le_bytes(key)))]
    ELSE IF col = "State"
    THEN IF Len(key) # 40 THEN [panic |-> TRUE, key |-> NoBytes]
         ELSE [panic |-> FALSE, key |-> SomeBytes(SubSeq(key, 9, Len(key)))]
    ELSE [panic |-> FALSE, key |-> NoBytes]

\* get_cold_key(..).unwrap_or(key), as adjust_key and get_cold_impl use it.
cold_key_or(col, key) ==
    IF get_cold_key(col, key).key = NoBytes THEN key
    ELSE get_cold_key(col, key).key[1]

\* adjust_op(op): whether the operation is kept, what it becomes, and
\* whether the call panics.  log_assert panics when debug assertions are
\* compiled in and only logs otherwise.
adjust_op(op, debug_assertions) ==
    IF op.type \in {"Set", "Insert"}
    THEN [keep |-> TRUE, panic |-> get_cold_key(op.col, op.key).panic,
          op |-> [op EXCEPT !.key = cold_key_or(op.col, op.key)]]
    ELSE IF op.type = "UpdateRefcount"
    THEN IF ~is_rc(op.col) THEN [keep |-> FALSE, panic |-> TRUE, op |-> op]
         ELSE IF strip_refcount(op.value) # NoBytes
         THEN [keep |-> TRUE, panic |-> FALSE,
               op |-> [type |-> "Set", col |-> op.col, key |-> op.key,
                       value |-> strip_refcount(op.value)[1]]]
         ELSE [keep |-> FALSE, panic |-> debug_assertions, op |-> op]
    ELSE [keep |-> FALSE, panic |-> debug_assertions, op |-> op]

\* Vec::swap_remove(idx): the last element takes the place of the removed.
swap_remove(ops, idx) ==
    IF idx = Len(ops) THEN SubSeq(ops, 1, Len(ops) - 1)
    ELSE [SubSeq(ops, 1, Len(ops) - 1) EXCEPT ![idx] = ops[Len(ops)]]

\* The loop of ColdDB::write over the operations from idx on: the
\* operations left in the transaction, or a panic on the way.
RECURSIVE adjust_ops(_, _, _)
adjust_ops(ops, idx, debug_assertions) ==
    IF idx > Len(ops) THEN [panic |-> FALSE, ops |-> ops]
    ELSE LET adjusted == adjust_op(ops[idx], debug_assertions) IN
         IF adjusted.panic THEN [panic |-> TRUE, ops |-> ops]
         ELSE IF adjusted.keep
         THEN adjust_ops([ops EXCEPT ![idx] = adjusted.op], idx + 1, debug_assertions)
         ELSE adjust_ops(swap_remove(ops, idx), idx, debug_assertions)

\* ColdDB::write(transaction): the adjusted operations go to the cold
\* database in one write.
ColdDB_write(transaction, debug_assertions) ==
    LET adjusted == adjust_ops(transaction, 1, debug_assertions) IN
    /\ last_result.kind # "panic"
    /\ cold' = IF adjusted.panic THEN cold ELSE db_write(cold, adjusted.ops)
    /\ Cardinality(cold') <= MaxDbEntries
    /\ last_result' = [op |-> "ColdDB::write",
                       kind |-> IF adjusted.panic THEN "panic" ELSE "ok",
                       transaction |-> transaction,
                       written |-> adjusted.ops]
    /\ network_requests' = <<>>
    /\ UNCHANGED hot
    /\ UNCHANGED <<pending_approvals, tier1_accounts_cache, state_sync_infos, catchup_state_syncs>>
    /\ UNCHANGED ingress_vars
    /\ UNCHANGED stall_vars
    /\ UNCHANGED <<blocks, head, latest_known, adv_produce_blocks,
                   adv_produce_blocks_only_valid, validator_signer,
                   produce_empty_blocks, ready, ready_lru,
                   doomslug_tip, sharded_tx_pool,
                   assigned_shards, tracked_shards, is_syncing, max_produced,
                   adv_used>>

\* A write to the hot database, which ColdDB only reads.
hot_write(col, key, value) ==
    /\ last_result.kind # "panic"
    /\ hot' = db_set(hot, col, key, value)
    /\ Cardinality(hot') <= MaxDbEntries
    /\ last_result' = NoResult
    /\ network_requests' = <<>>
    /\ UNCHANGED cold
    /\ UNCHANGED <<pending_approvals, tier1_accounts_cache, state_sync_infos, catchup_state_syncs>>
    /\ UNCHANGED ingress_vars
    /\ UNCHANGED stall_vars
    /\ UNCHANGED <<blocks, head, latest_known, adv_produce_blocks,
                   adv_produce_blocks_only_valid, validator_signer,
                   produce_empty_blocks, ready, ready_lru,
                   doomslug_tip, sharded_tx_pool,
                   assigned_shards, tracked_shards, is_syncing, max_produced,
                   adv_used>>

\* ColdDB::get_cold_impl: the entry of the cold database under the cold key.
get_cold_impl(col, key) == db_get_raw_bytes(cold, col, cold_key_or(col, key))

\* What ColdDB::get_raw_bytes returns: the hot database's answer for a hot
\* column, else the cold entry, with a reference count of one appended in a
\* reference-counted column.
get_raw_bytes(col, key) ==
    IF is_hot_column(col) THEN db_get_raw_bytes(hot, col, key)
    ELSE IF get_cold_impl(col, key) # NoBytes /\ is_rc(col)
    THEN SomeBytes(get_cold_impl(col, key)[1] \o ONE)
    ELSE get_cold_impl(col, key)

\* What ColdDB::get_with_rc_stripped returns for a reference-counted column.
get_with_rc_stripped(col, key) ==
    IF is_hot_column(col) THEN db_get_raw_bytes(hot, col, key)
    ELSE get_cold_impl(col, key)

\* A read through ColdDB: method is get_raw_bytes or get_with_rc_stripped,
\* which asserts that the column is reference counted.
ColdDB_read(method, col, key) ==
    LET panics == \/ (~is_hot_column(col) /\ get_cold_key(col, key).panic)
                  \/ (method = "get_with_rc_stripped" /\ ~is_rc(col))
    IN
    /\ last_result.kind # "panic"
    /\ last_result' = [op |-> method,
                       kind |-> IF panics THEN "panic" ELSE "ok",
                       col |-> col, key |-> key,
                       value |-> IF panics THEN NoBytes
                                 ELSE IF method = "get_raw_bytes"
                                 THEN get_raw_bytes(col, key)
                                 ELSE get_with_rc_stripped(col, key)]
    /\ network_requests' = <<>>
    /\ UNCHANGED db_vars
    /\ UNCHANGED <<pending_approvals, tier1_accounts_cache, state_sync_infos, catchup_state_syncs>>
    /\ UNCHANGED ingress_vars
    /\ UNCHANGED stall_vars
    /\ UNCHANGED <<blocks, head, latest_known, adv_produce_blocks,
                   adv_produce_blocks_only_valid, validator_signer,
                   produce_empty_blocks, ready, ready_lru,
                   doomslug_tip, sharded_tx_pool,
                   assigned_shards, tracked_shards, is_syncing, max_produced,
                   adv_used>>

\* ------------------------------------------------------------ catchup

\* BlocksCatchUpState::is_finished taken to hold at once.
is_finished_always(blocks_catch_up_state) == TRUE

\* BlocksCatchUpState::is_finished: no block is pending or being processed.
\* The state is kept as the number of such blocks.
is_finished(blocks_catch_up_state) == blocks_catch_up_state = 0

\* One turn of the loop of run_catchup, for sync_hash.  answer holds what
\* the chain, the runtime and the StateSync machine answer: fault names the
\* call that fails, if one does (get_block, state_sync.run,
\* catchup_blocks_step, finish_catchup_blocks); state_sync is the result of
\* StateSync::run, which keeps answering Completed once it did; remaining
\* is the number of blocks catchup_blocks_step leaves pending or in
\* processing; challenges are the artifacts of finish_catchup_blocks,
\* which takes the StateSyncInfo of sync_hash off the store.
catchup_sync_hash(syncs, sync_hash, answer) ==
    LET created == [state_sync |-> "syncing",
                    new_shard_sync |->
                        IF answer.need_to_split
                        THEN {s \in Shards : cares_about_shard_this_or_next_epoch(
                                                 validator_signer, s, TRUE)}
                        ELSE {},
                    blocks_catch_up_state |-> 1]
        entry == IF sync_hash \in DOMAIN syncs THEN syncs[sync_hash] ELSE created
        result == IF entry.state_sync = "done" THEN "Completed" ELSE answer.state_sync
        With(e) == [h \in DOMAIN syncs \cup {sync_hash} |->
                       IF h = sync_hash THEN e ELSE syncs[h]]
        Call(name, ok, res) ==
            [call |-> name, sync_hash |-> sync_hash, ok |-> ok, result |-> res]
        Synced == Call("state_sync.run", TRUE, result)
        Stepped == Call("catchup_blocks_step", TRUE, answer.remaining)
        Out(kind, e, calls, finished, challenges) ==
            [kind |-> kind, syncs |-> With(e), calls |-> calls,
             finished |-> finished, challenges |-> challenges]
        synced == [entry EXCEPT !.state_sync = "done"]
        stepped == [synced EXCEPT !.blocks_catch_up_state = answer.remaining]
    IN IF answer.fault = "get_block"
       THEN [kind |-> "err", syncs |-> syncs, calls |-> <<>>, finished |-> {},
             challenges |-> <<>>]
       ELSE IF answer.fault = "state_sync"
       THEN Out("err", entry, <<Call("state_sync.run", FALSE, "Err")>>, {}, <<>>)
       ELSE IF result = "Unchanged"
       THEN Out("ok", entry, <<Synced>>, {}, <<>>)
       ELSE IF result = "Changed"
       THEN Out(IF answer.fetch_block THEN "panic" ELSE "ok", entry,
                <<Synced>>, {}, <<>>)
       ELSE IF answer.fault = "catchup_blocks_step"
       THEN Out("err", synced,
                <<Synced, Call("catchup_blocks_step", FALSE, 0)>>, {}, <<>>)
       ELSE IF ~is_finished(stepped.blocks_catch_up_state)
       THEN Out("ok", stepped, <<Synced, Stepped>>, {}, <<>>)
       ELSE IF answer.fault = "finish_catchup_blocks"
       THEN Out("err", stepped,
                <<Synced, Stepped, Call("finish_catchup_blocks", FALSE, <<>>)>>,
                {}, <<>>)
       ELSE Out("ok", stepped,
                <<Synced, Stepped,
                  Call("finish_catchup_blocks", TRUE, answer.challenges),
                  Call("process_block_processing_artifact", TRUE, answer.challenges)>>,
                {sync_hash}, answer.challenges)

\* The loop of run_catchup over the StateSyncInfos of the store, in the
\* order of their hashes; an Err or a panic ends it.
RECURSIVE catchup_loop(_, _, _, _)
catchup_loop(hashes, answers, done, out) ==
    IF hashes \subseteq done \/ out.kind # "ok" THEN out
    ELSE LET sync_hash == CHOOSE h \in hashes \ done :
                              \A g \in hashes \ done : h <= g
             turn == catchup_sync_hash(out.syncs, sync_hash, answers[sync_hash])
         IN catchup_loop(hashes, answers, done \cup {sync_hash},
                [kind |-> turn.kind, syncs |-> turn.syncs,
                 calls |-> out.calls \o turn.calls,
                 finished |-> out.finished \cup turn.finished,
                 challenges |-> out.challenges \o turn.challenges])

\* run_catchup(highest_height_peers, schedulers, callback).  The calls it
\* makes are kept in last_result; process_block_processing_artifact sends
\* the challenges of a node with a validator signer.
run_catchup(answers) ==
    LET out == catchup_loop(state_sync_infos, answers, {},
                   [kind |-> "ok", syncs |-> catchup_state_syncs, calls |-> <<>>,
                    finished |-> {}, challenges |-> <<>>])
    IN
    /\ last_result.kind # "panic"
    /\ catchup_state_syncs' = out.syncs
    /\ state_sync_infos' = state_sync_infos \ out.finished
    /\ network_requests' =
           IF validator_signer = None THEN <<>>
           ELSE [i \in DOMAIN out.challenges |->
                    [type |-> "Challenge", challenge |-> out.challenges[i]]]
    /\ last_result' = [op |-> "run_catchup", kind |-> out.kind,
                       calls |-> out.calls, syncs_before |-> catchup_state_syncs]
    /\ UNCHANGED db_vars
    /\ UNCHANGED <<pending_approvals, tier1_accounts_cache>>
    /\ UNCHANGED ingress_vars
    /\ UNCHANGED stall_vars
    /\ UNCHANGED <<blocks, head, latest_known, adv_produce_blocks,
                   adv_produce_blocks_only_valid, validator_signer,
                   produce_empty_blocks, ready, ready_lru,
                   doomslug_tip, sharded_tx_pool, assigned_shards,
                   tracked_shards, is_syncing, max_produced, adv_used>>

\* ------------------------------------------------------- specifications

\* The state Client::new leaves on a fresh chain store.
InitClient ==
    /\ blocks = [h \in {1} |-> GenesisBlock]
    /\ head = 1
    /\ latest_known = [height |-> 0, seen |-> 0]
    /\ adv_produce_blocks = FALSE
    /\ adv_produce_blocks_only_valid = FALSE
    /\ ready = {}
    /\ ready_lru = <<>>
    /\ doomslug_tip = DefaultDoomslugTip
    /\ sharded_tx_pool = [s \in Shards |-> {}]
    /\ is_syncing = FALSE
    /\ orphans = {}
    /\ in_processing = {}
    /\ processed_heights = {}
    /\ tail = 0
    /\ rebroadcasted_blocks = <<>>
    /\ clock = 0
    /\ last_time_head_progress_made = 0
    /\ last_time_head_updated = 0
    /\ sent_in_window = {}
    /\ network_requests = <<>>
    /\ last_result = NoResult
    /\ max_produced = 0
    /\ adv_used = FALSE
    /\ pending_approvals = <<>>
    /\ tier1_accounts_cache = <<>>
    /\ state_sync_infos = {}
    /\ catchup_state_syncs = EmptyMap
    /\ hot = {}
    /\ cold = {}

\* Block production, the chain growing under it, the adversarial controls
\* and restarts: what LatestKnown goes through.  The chain stamps what it
\* saves with 10, produce_block its blocks with 20.
InitProduce ==
    /\ InitClient
    /\ validator_signer = "alice"
    /\ produce_empty_blocks = TRUE
    /\ assigned_shards = {}
    /\ tracked_shards = {}

OneApprover == {<<[account_id |-> "alice", is_slashed |-> FALSE]>>}
OneWitness == {[a \in {"alice"} |-> "s1"]}

NextProduce ==
    \/ \E next_height \in Heights, fail_at \in FailPoints :
          produce_block(next_height, fail_at, OneApprover, OneWitness, {20})
    \/ \E height \in Heights :
          /\ Cardinality(DOMAIN blocks) < MaxBlocks
          /\ postprocess_ready_blocks(FreshHash, head, height, {}, {}, 10,
                                      "NONE", FALSE, EmptyMap, tail)
    \/ \E produce \in BOOLEAN, only_valid \in BOOLEAN :
          set_adv_controls(produce, only_valid)
    \/ Restart

SpecProduce == InitProduce /\ [][NextProduce]_vars

\* C1: whenever produce_block(next_height) returns Some(block), LatestKnown
\* already holds height = next_height and seen = the block's timestamp; and
\* when save_latest_known fails, no block is returned.
C1_LatestKnownSavedBeforeReturn ==
    last_result.op = "produce_block" =>
        /\ last_result.kind = "some" =>
               /\ last_result.block.height = last_result.next_height
               /\ latest_known = [height |-> last_result.next_height,
                                  seen |-> last_result.block.timestamp]
        /\ last_result.fail_at = "save" => last_result.kind # "some"

C1_Witness ==
    /\ last_result.op = "produce_block"
    /\ last_result.kind = "some"
    /\ last_result.next_height = 2
    /\ last_result.block.timestamp = 20
    /\ latest_known = [height |-> 2, seen |-> 20]

\* C2: when the adversarial flags were never set, a produce_block call for a
\* height at or below one already returned as Some(block) returns no block
\* (Ok(None), or the error of a failing store), whatever restarts lie in
\* between; the height is at or below LatestKnown.height.
C2_AtMostOneBlockPerHeight ==
    [][/\ (/\ ~adv_used'
            /\ last_result'.op = "produce_block"
            /\ last_result'.next_height <= max_produced)
           => /\ last_result'.kind \in {"none", "err"}
              /\ last_result'.fail_at = "no" => last_result'.kind = "none"
       /\ ~adv_used' => max_produced' <= latest_known'.height]_vars

C2_Witness ==
    /\ ~adv_used
    /\ last_result.op = "produce_block"
    /\ last_result.fail_at = "no"
    /\ last_result.kind = "none"
    /\ last_result.next_height = max_produced
    /\ max_produced = 2
    /\ doomslug_tip.hash # DefaultHash

\* C3 as stated: LatestKnown.height never decreases, whatever the client
\* does.
C3_LatestKnownMonotone ==
    [][latest_known'.height >= latest_known.height]_vars

\* C3: while adv_produce_blocks is off (always, without test_features), no
\* step of the client, produce_block included, and no restart lowers
\* LatestKnown.height.
C3_LatestKnownMonotoneFlagOff ==
    [][~adv_produce_blocks => latest_known'.height >= latest_known.height]_vars

C3_Witness ==
    /\ ~adv_used
    /\ last_result.op = "produce_block"
    /\ last_result.kind = "some"
    /\ last_result.next_height = 3
    /\ latest_known.height = 3
    /\ HeadBlock.height = 1

\* Block production over every approver list and witness of the value
\* spaces: what the approvals vector of a produced block goes through.
NextApprovals ==
    \/ \E next_height \in Heights, fail_at \in FailPoints :
          produce_block(next_height, fail_at,
                        (LET Stakes == [account_id : Accounts, is_slashed : BOOLEAN] IN
                         {<<>>} \cup {<<a>> : a \in Stakes}
                             \cup {p \in Stakes \X Stakes : p[1].account_id # p[2].account_id}),
                        UNION {[d -> {"s1", "s2"}] : d \in SUBSET Accounts}, {10})
    \/ \E prev \in DOMAIN blocks, height \in Heights :
          /\ Cardinality(DOMAIN blocks) < MaxBlocks
          /\ postprocess_ready_blocks(FreshHash, prev, height, {}, {}, 10,
                                      "NONE", FALSE, EmptyMap, tail)

SpecApprovals == InitProduce /\ [][NextApprovals]_vars

\* C4: the approvals vector of a block produce_block returns has one slot
\* per entry of get_epoch_block_approvers_ordered, in that order; the slot
\* of a slashed approver is None; a slot holds a signature only if it is
\* the one the Doomslug witness held for that approver's account.
C4_ApprovalsFollowApprovers ==
    (last_result.op = "produce_block" /\ last_result.kind = "some") =>
        LET approvals == last_result.block.approvals
            approvers == last_result.approvers
            witness == last_result.witness
        IN /\ last_result.witness_calls = 1
           /\ Len(approvals) = Len(approvers)
           /\ \A i \in 1..Len(approvers) :
                 /\ approvers[i].is_slashed => approvals[i] = None
                 /\ approvals[i] # None =>
                       /\ approvers[i].account_id \in DOMAIN witness
                       /\ approvals[i] = witness[approvers[i].account_id]

C4_Witness ==
    /\ last_result.op = "produce_block"
    /\ last_result.kind = "some"
    /\ Len(last_result.approvers) = 2
    /\ last_result.approvers[1].is_slashed
    /\ ~last_result.approvers[2].is_slashed
    /\ DOMAIN last_result.witness = Accounts
    /\ last_result.witness["alice"] # last_result.witness["bob"]
    /\ last_result.block.approvals[1] = None
    /\ last_result.block.approvals[2] # None

\* Block production with the chunk readiness cache filling up and the
\* chain growing by blocks with new and with carried chunks.
InitChunks ==
    /\ InitClient
    /\ validator_signer = "alice"
    /\ produce_empty_blocks \in BOOLEAN
    /\ assigned_shards = {}
    /\ tracked_shards = {}

NextChunks ==
    \/ \E next_height \in Heights, fail_at \in {"no", "save"} :
          produce_block(next_height, fail_at, OneApprover, OneWitness, {10})
    \/ \E fresh \in {{}, {0}} :
          /\ Cardinality(DOMAIN blocks) < MaxBlocks
          /\ postprocess_ready_blocks(FreshHash, head, HeadBlock.height + 1,
                                      fresh, {}, 10, "NONE", FALSE, EmptyMap,
                                      tail)
    \/ \E shard \in Shards :
          on_chunk_header_ready_for_inclusion(ChunkHeader(shard, head, {}, 0))
    \/ \E produce \in BOOLEAN : set_adv_controls(produce, FALSE)

SpecChunks == InitChunks /\ [][NextChunks]_vars

InitPool ==
    /\ InitClient
    /\ validator_signer \in {None, "alice"}
    /\ produce_empty_blocks = TRUE
    /\ assigned_shards \in {{}, Shards}
    /\ tracked_shards \in {{}, {1}}
    /\ validator_signer = None => assigned_shards = {}

\* Transactions coming in, checked or recorded, forwarded or not, while
\* the chain grows by blocks that carry some of them.
NextTx ==
    \/ \E tx \in Txs, is_forwarded \in BOOLEAN, check_only \in BOOLEAN :
          process_tx(tx, is_forwarded, check_only, AnswersInEpoch)
    \/ \E tx \in Txs :
          /\ Cardinality(DOMAIN blocks) < MaxBlocks
          /\ postprocess_ready_blocks(FreshHash, head, HeadBlock.height + 1,
                                      {ShardOf(tx)}, {tx}, 10, "NONE", FALSE,
                                      EmptyMap, tail)

SpecTx == InitPool /\ [][NextTx]_vars

\* C6 as stated: after process_tx returned ValidTx, whatever is_forwarded
\* and check_only were, the transaction is in the pool of its shard.
C6_ValidTxInPool ==
    (last_result.op = "process_tx" /\ last_result.kind = "ValidTx") =>
        last_result.tx \in sharded_tx_pool[ShardOf(last_result.tx)]

\* C6: after process_tx with check_only = false returned ValidTx, whatever
\* is_forwarded was, the transaction is in the pool of its shard; with
\* check_only = true ValidTx is returned with the pool left as it was.
C6_ValidTxRecorded ==
    (last_result.op = "process_tx" /\ last_result.kind = "ValidTx") =>
        IF last_result.check_only
        THEN sharded_tx_pool = last_result.pool_before
        ELSE last_result.tx \in sharded_tx_pool[ShardOf(last_result.tx)]

C6_Witness ==
    /\ last_result.op = "process_tx"
    /\ last_result.kind = "ValidTx"
    /\ ~last_result.check_only
    /\ last_result.is_forwarded
    /\ last_result.tx \notin last_result.pool_before[ShardOf(last_result.tx)]
    /\ last_result.tx \in sharded_tx_pool[ShardOf(last_result.tx)]

\* C12 as stated: process_tx of a forwarded transaction that passed the
\* basic validation, on a node that neither cares nor will care about its
\* shard, returns NoResponse whatever check_only is, sends nothing and
\* leaves the pool as it was.
C12_ForwardedUntrackedNoResponse ==
    (/\ last_result.op = "process_tx"
     /\ last_result.is_forwarded
     /\ last_result.kind # "InvalidTx"
     /\ ~cares_about_shard_this_or_next_epoch(validator_signer,
                                              ShardOf(last_result.tx), TRUE))
    => /\ last_result.kind = "NoResponse"
       /\ network_requests = <<>>
       /\ sharded_tx_pool = last_result.pool_before

\* C12: process_tx of a forwarded transaction that passed the basic
\* validation, on a node that neither cares nor will care about its shard,
\* returns NoResponse with check_only = false and DoesNotTrackShard with
\* check_only = true; in both cases it sends nothing and leaves the pool
\* as it was.
C12_ForwardedUntrackedNotRerouted ==
    (/\ last_result.op = "process_tx"
     /\ last_result.is_forwarded
     /\ last_result.kind # "InvalidTx"
     /\ ~cares_about_shard_this_or_next_epoch(validator_signer,
                                              ShardOf(last_result.tx), TRUE))
    => /\ last_result.kind = IF last_result.check_only
                             THEN "DoesNotTrackShard" ELSE "NoResponse"
       /\ network_requests = <<>>
       /\ sharded_tx_pool = last_result.pool_before

C12_Witness ==
    /\ last_result.op = "process_tx"
    /\ last_result.is_forwarded
    /\ ~last_result.check_only
    /\ last_result.kind = "NoResponse"
    /\ validator_signer # None
    /\ tracked_shards = {1}
    /\ ShardOf(last_result.tx) = 0
    /\ ~cares_about_shard_this_or_next_epoch(validator_signer, 0, TRUE)
    /\ sharded_tx_pool[1] # {}
    /\ sharded_tx_pool = last_result.pool_before

\* Forwarded transactions being recorded and blocks, forks and reorgs
\* included, being accepted.
NextPool ==
    \/ \E tx \in Txs : process_tx(tx, TRUE, FALSE,
              {answers \in AnswersInEpoch :
                  /\ answers.has_state_root
                  /\ answers.producers[<<0, 2>>] = "alice"
                  /\ answers.next_chunk_producers[1] = "alice"})
    \/ \E prev \in DOMAIN blocks, height \in Heights, tx \in Txs :
          /\ Cardinality(DOMAIN blocks) < MaxPoolBlocks
          /\ height <= blocks[prev].height + 2
          /\ postprocess_ready_blocks(FreshHash, prev, height, {ShardOf(tx)},
                                      {tx}, 10, "NONE", FALSE, EmptyMap, tail)

SpecPool == InitPool /\ [][NextPool]_vars

\* C7 as stated: after a block extending the head was accepted, the
\* transactions of its chunks with height_included = its height are out of
\* the pool of every shard the node cares about, validator signer or not.
C7_NextRemovesOnEveryNode ==
    (last_result.op = "on_block_accepted" /\ last_result.status = "Next") =>
        LET B == blocks[last_result.block_hash] IN
        \A s \in Shards :
            (/\ B.chunks[s].height_included = B.height
             /\ cares_about_shard_this_or_next_epoch(validator_signer, s, TRUE))
            => Transactions(B.chunks[s]) \cap sharded_tx_pool[s] = {}

\* C7: on a node with a validator signer, after a block extending the head
\* was accepted, the transactions of its chunks with height_included = its
\* height are out of the pool of every shard the node cares about; a node
\* without a validator signer leaves its pool as it was.
C7_NextRemovesOnValidator ==
    (last_result.op = "on_block_accepted" /\ last_result.status = "Next") =>
        LET B == blocks[last_result.block_hash] IN
        IF validator_signer = None
        THEN sharded_tx_pool = last_result.pool_before
        ELSE \A s \in Shards :
                (/\ B.chunks[s].height_included = B.height
                 /\ cares_about_shard_this_or_next_epoch(validator_signer, s, TRUE))
                => Transactions(B.chunks[s]) \cap sharded_tx_pool[s] = {}

C7_Witness ==
    /\ last_result.op = "on_block_accepted"
    /\ last_result.status = "Next"
    /\ validator_signer # None
    /\ assigned_shards = {}
    /\ \E s \in tracked_shards :
          LET B == blocks[last_result.block_hash] IN
          /\ B.chunks[s].height_included = B.height
          /\ Transactions(B.chunks[s]) # {}
          /\ Transactions(B.chunks[s]) \subseteq last_result.pool_before[s]
          /\ Transactions(B.chunks[s]) \cap sharded_tx_pool[s] = {}

\* The blocks from `hash` back to genesis, by prev_hash.
BranchOf(hash) ==
    LET N == Cardinality(DOMAIN blocks)
        back[i \in 0..N] ==
            IF i = 0 THEN {hash}
            ELSE back[i - 1] \cup
                 ({blocks[h].prev_hash : h \in back[i - 1]} \ {DefaultHash})
    IN back[N]

\* The transactions of the new chunks of a set of blocks, for one shard.
IncludedTxs(hashes, s) ==
    UNION {Transactions(blocks[h].chunks[s]) :
              h \in {x \in hashes :
                        blocks[x].chunks[s].height_included = blocks[x].height}}

\* C8: after a reorg from the branch of prev_head (A) to the branch of the
\* accepted block (B), the walk has ended at the common ancestor with the
\* blocks of B to remove and of A to reintroduce, the ancestor in neither,
\* and, for every shard the node cares about, the transactions included
\* only in A after the ancestor are in the pool and those included in B
\* after it are not.
C8_ReorgReconcilesCaredShards ==
    (last_result.op = "on_block_accepted" /\ last_result.status = "Reorg") =>
        LET a == BranchOf(last_result.prev_head)
            b == BranchOf(last_result.block_hash)
            A == a \ b
            B == b \ a
            ancestor == CHOOSE h \in a \cap b :
                            \A g \in a \cap b : blocks[g].height <= blocks[h].height
            w == reorg_walk(blocks, last_result.block_hash,
                            last_result.prev_head, <<>>, <<>>)
        IN /\ w.end = ancestor
           /\ {w.to_remove[i] : i \in DOMAIN w.to_remove} = B
           /\ {w.to_reintroduce[i] : i \in DOMAIN w.to_reintroduce} = A
           /\ \A s \in Shards :
                 cares_about_shard_this_or_next_epoch(validator_signer, s, TRUE) =>
                    /\ (IncludedTxs(A, s) \ IncludedTxs(B, s))
                           \subseteq sharded_tx_pool[s]
                    /\ IncludedTxs(B, s) \cap sharded_tx_pool[s] = {}

\* The blocks peers send: two children of genesis at the first height, one
\* of them forged, one at the second height, and two generations of blocks
\* at the next height on them.
IngressChildren(parents) ==
    {IngressBlock(p.hash, p.height + 1, FALSE) :
        p \in {x \in parents : ~x.forged /\ x.height < MaxHeight}}

IngressBlocks ==
    LET first == {IngressBlock(1, 1, FALSE), IngressBlock(1, 1, TRUE),
                  IngressBlock(1, 2, FALSE)}
        second == IngressChildren({IngressBlock(1, 1, FALSE)})
    IN first \cup second \cup IngressChildren(second)

InitIngress ==
    /\ InitClient
    /\ validator_signer = "alice"
    /\ produce_empty_blocks = TRUE
    /\ assigned_shards = {}
    /\ tracked_shards = {}

\* Blocks arriving, asked for or not, in any order and more than once, the
\* chain accepting those it has processed and collecting the garbage below
\* a new head, at once or later.
NextIngress ==
    \/ \E block \in IngressBlocks, peer_id \in {"p1", "p2"}, was_requested \in BOOLEAN :
          receive_block(block, peer_id, was_requested)
    \/ \E b \in in_processing, collects \in BOOLEAN :
          /\ Cardinality(DOMAIN blocks) < MaxBlocks
          /\ postprocess_ready_blocks(b.hash, b.prev_hash, b.height, {}, {},
                                      10, "NONE", FALSE, EmptyMap,
                                      IF collects /\ BlockStatus(b.prev_hash, b.height) # "Fork"
                                      THEN b.height ELSE tail)
    \/ \E syncing \in BOOLEAN : set_sync_status(syncing)

SpecIngress == InitIngress /\ [][NextIngress]_vars

\* C9: when a received block passed the height gate and its processing
\* failed with Orphan, the call sent exactly one BlockRequest, for the
\* previous block and to the sender, if the previous block is neither in the
\* orphan pool nor stored, and no BlockRequest otherwise.
C9_OrphanRequestsPrevOnce ==
    (last_result.op = "receive_block" /\ last_result.result = "Orphan") =>
        LET B == last_result.block
            IsBlockRequest(r) == r.type = "BlockRequest"
            sent == SelectSeq(network_requests, IsBlockRequest)
        IN IF ~is_orphan(B.prev_hash) /\ ~block_exists(B.prev_hash)
           THEN sent = <<[type |-> "BlockRequest", hash |-> B.prev_hash,
                          peer_id |-> last_result.peer_id]>>
           ELSE sent = <<>>

C9_Witness ==
    /\ last_result.op = "receive_block"
    /\ last_result.result = "Orphan"
    /\ last_result.peer_id = "p2"
    /\ ~block_exists(last_result.block.prev_hash)
    /\ is_orphan(last_result.block.hash)
    /\ \E o \in orphans : block_exists(o.prev_hash)
    /\ \E o \in orphans : is_orphan(o.prev_hash)
    /\ Len(network_requests) = 1

\* The state of the client and the chain but for what the last handler
\* returned and sent.
client_state ==
    <<blocks, head, latest_known, adv_produce_blocks,
      adv_produce_blocks_only_valid, validator_signer, produce_empty_blocks,
      ready, ready_lru,
      doomslug_tip, sharded_tx_pool, assigned_shards, tracked_shards,
      is_syncing, orphans, in_processing, processed_heights, tail,
      rebroadcasted_blocks, last_time_head_progress_made>>

\* C10 as stated: a receive_block(B) right after a receive_block(B) from
\* the same peer, not requested, is dropped by check_block_height, changes
\* nothing in the client and sends nothing.
C10_SecondReceiveDropped ==
    [][(/\ last_result.op = "receive_block"
        /\ last_result'.op = "receive_block"
        /\ last_result'.block = last_result.block
        /\ last_result'.peer_id = last_result.peer_id
        /\ ~last_result'.was_requested
        /\ last_result'.repeat)
       => /\ last_result'.kind = "dropped"
          /\ network_requests' = <<>>
          /\ client_state' = client_state]_vars

\* C10: a receive_block(B) right after a receive_block(B) from the same
\* peer, not requested, is dropped by check_block_height when the first call
\* got to the chain's processing and B does not build on the head; and a
\* dropped call, before header verification, rebroadcast and processing,
\* changes nothing in the client and sends nothing.
C10_SecondReceiveDroppedOffHead ==
    [][/\ (/\ last_result.op = "receive_block"
            /\ last_result.kind \in {"ok", "err"}
            /\ last_result'.op = "receive_block"
            /\ last_result'.block = last_result.block
            /\ last_result'.peer_id = last_result.peer_id
            /\ ~last_result'.was_requested
            /\ last_result'.repeat
            /\ last_result'.block.prev_hash # head)
           => last_result'.kind = "dropped"
       /\ (last_result'.op = "receive_block" /\ last_result'.repeat
            /\ last_result'.kind = "dropped")
           => /\ network_requests' = <<>>
              /\ client_state' = client_state]_vars

C10_Witness ==
    /\ last_result.op = "receive_block"
    /\ last_result.repeat
    /\ last_result.kind = "dropped"
    /\ ~last_result.was_requested
    /\ is_orphan(last_result.block.hash)
    /\ last_result.block.height >= tail
    /\ ~is_syncing
    /\ network_requests = <<>>

\* Blocks arriving unrequested and being accepted while time passes, the
\* stall check running at any moment, the sync status changing and the
\* process restarting.
NextStall ==
    \/ \E block \in IngressBlocks : receive_block(block, "p1", FALSE)
    \/ \E b \in in_processing :
          /\ Cardinality(DOMAIN blocks) < MaxBlocks
          /\ postprocess_ready_blocks(b.hash, b.prev_hash, b.height, {}, {},
                                      10, "NONE", FALSE, EmptyMap, tail)
    \/ \E stall_timeout \in {0, 1}, store_ok \in BOOLEAN :
          check_head_progress_stalled(stall_timeout, store_ok)
    \/ /\ last_result.kind # "panic"
       /\ clock < MaxClock
       /\ clock' = clock + 1
       /\ last_result' = NoResult
       /\ network_requests' = <<>>
       /\ UNCHANGED db_vars
       /\ UNCHANGED <<pending_approvals, tier1_accounts_cache, state_sync_infos, catchup_state_syncs>>
       /\ UNCHANGED ingress_vars
       /\ UNCHANGED <<last_time_head_progress_made, last_time_head_updated,
                      sent_in_window>>
       /\ UNCHANGED <<blocks, head, latest_known, adv_produce_blocks,
                      adv_produce_blocks_only_valid, validator_signer,
                      produce_empty_blocks, ready, ready_lru,
                      doomslug_tip, sharded_tx_pool,
                      assigned_shards, tracked_shards, is_syncing, max_produced,
                      adv_used>>
    \/ \E syncing \in BOOLEAN : set_sync_status(syncing)
    \/ Restart

SpecStall == InitIngress /\ [][NextStall]_vars

NextFinality ==
    \E prev \in DOMAIN blocks, height \in 1..MaxFinalHeight :
       /\ Cardinality(DOMAIN blocks) < MaxFinalBlocks
       /\ (IF HeadBlock.last_final_block = DefaultHash THEN 1
           ELSE HeadBlock.last_final_block) \in BranchOf(prev)
       /\ postprocess_ready_blocks(FreshHash, prev, height, {}, {}, 10,
                                   "NONE", FALSE, EmptyMap, tail)

SpecFinality == InitIngress /\ [][NextFinality]_vars

\* C14: over any sequence of head changes, reorgs included, the
\* last_final_height that check_and_update_doomslug_tip hands to
\* Doomslug.set_tip never decreases.
C14_LastFinalHeightMonotone ==
    [][doomslug_tip'.last_final_height >= doomslug_tip.last_final_height]_vars

\* Block production on a node that may or may not produce empty blocks,
\* with every answer of the runtime, chunk headers getting ready, the
\* chain growing, the adversarial controls and restarts.
NextNotNow ==
    \/ \E next_height \in Heights, fail_at \in FailPoints :
          produce_block(next_height, fail_at, OneApprover, OneWitness, {20})
    \/ /\ Cardinality(DOMAIN blocks) < MaxBlocks
       /\ postprocess_ready_blocks(FreshHash, head, HeadBlock.height + 1, {},
                                   {}, 10, "NONE", FALSE, EmptyMap, tail)
    \/ on_chunk_header_ready_for_inclusion(ChunkHeader(0, head, {}, 0))
    \/ \E produce \in BOOLEAN, only_valid \in BOOLEAN :
          set_adv_controls(produce, only_valid)
    \/ Restart

SpecNotNow == InitChunks /\ [][NextNotNow]_vars

\* One of the 'not now' cases holds for the produce_block that just ran:
\* the height is known, another account is elected, the next block starts
\* an epoch and the previous block is not caught up, the elected
\* producer's key is not the local one.
NotNowRescheduled ==
    \/ last_result'.next_height <= latest_known.height
    \/ last_result'.answers.next_block_proposer \notin {None, validator_signer}
    \/ (/\ last_result'.answers.epoch_start = "yes"
        /\ last_result'.answers.caught_up = "no")
    \/ last_result'.answers.key_matches = "no"

\* No chunk header is ready for the head and empty blocks are not produced.
NotNowEmpty ==
    /\ ~produce_empty_blocks
    /\ get_chunk_headers_ready_for_inclusion(head) = {}

\* produce_block returned Ok(None), wrote no LatestKnown and took no witness.
ReturnedNoneUntouched ==
    /\ last_result'.kind = "none"
    /\ latest_known' = latest_known
    /\ last_result'.witness_calls = 0

\* C15 as stated: a produce_block that met no store or runtime error
\* returns Ok(None), without writing LatestKnown and without taking the
\* Doomslug witness, in each 'not now' case.
C15_NotNowReturnsNone ==
    [][(/\ last_result'.op = "produce_block"
        /\ last_result'.kind # "err"
        /\ (NotNowRescheduled \/ NotNowEmpty))
       => ReturnedNoneUntouched]_vars

\* C15: with adv_produce_blocks off, a produce_block that met no store or
\* runtime error returns Ok(None), without writing LatestKnown and without
\* taking the Doomslug witness, in each 'not now' case; when it produces no
\* empty blocks and no chunk header is ready, it does so in every mode; and
\* a call that returned before reading the key returned Ok(None) or Err.
C15_NotNowReturnsNoneFlagOff ==
    [][(last_result'.op = "produce_block" /\ last_result'.kind # "err")
       => /\ (~adv_produce_blocks /\ NotNowRescheduled) => ReturnedNoneUntouched
          /\ NotNowEmpty => ReturnedNoneUntouched
          /\ last_result'.answers.key_matches = None
                => ReturnedNoneUntouched]_vars

C15_Witness ==
    /\ last_result.op = "produce_block"
    /\ last_result.kind = "none"
    /\ ~adv_produce_blocks
    /\ last_result.next_height > latest_known.height
    /\ last_result.answers.next_block_proposer = validator_signer
    /\ last_result.answers.epoch_start = "no"
    /\ last_result.answers.key_matches = "yes"
    /\ ~produce_empty_blocks
    /\ get_chunk_headers_ready_for_inclusion(head) = {}
    /\ latest_known.height = 2
    /\ max_produced = 2

\* C16: when the epoch of the block to be produced has a protocol version
\* above PROTOCOL_VERSION and produce_block got as far as reading it (the
\* node is the elected producer and every check before passed), the call
\* panics: no block is returned, LatestKnown stays as it was, and the
\* client does nothing more until the process is started again.
C16_NewerProtocolAborts ==
    [][/\ (/\ last_result'.op = "produce_block"
            /\ last_result'.answers.protocol_version > PROTOCOL_VERSION)
           => /\ last_result'.kind = "panic"
              /\ last_result'.block = None
              /\ latest_known' = latest_known
              /\ max_produced' = max_produced
       /\ last_result.kind = "panic" => last_result' = NoResult]_vars

C16_Witness ==
    /\ last_result.op = "produce_block"
    /\ last_result.kind = "panic"
    /\ last_result.answers.protocol_version = PROTOCOL_VERSION + 1
    /\ last_result.answers.next_block_proposer = validator_signer
    /\ last_result.answers.key_matches = "yes"
    /\ ~adv_produce_blocks
    /\ last_result.next_height = 3
    /\ latest_known.height = 2
    /\ max_produced = 2
    /\ last_result.witness_calls = 1


\* ------------------------------------------------------------------------
\* C17: when the chain reports Orphan for a received block, the block
\* receiving operation returns Ok and the block is not recorded as errored
\* (the request for the missing previous block is C9's).
C17_OrphanIsNotAnError ==
    (last_result.op = "receive_block" /\ last_result.result = "Orphan")
        => (last_result.kind = "ok" /\ ~last_result.errored)

\* ------------------------------------------------------------------------
\* The cold storage under writes of single operations and reads.

CryptoHashes == {[i \in 1..32 |-> byte] : byte \in {0, 7}}
Values == {<<70>>, <<66>>}

\* The keys of a column in the hot format.  The height keys are the
\* little-endian bytes of 0, 1 and 2^56: those of 2^56 are the big-endian
\* bytes of 1, those of 0 read the same in both orders.
HotKeys(col) ==
    IF col \in HeightColumns
    THEN {[j \in 1..8 |-> IF j = one THEN 1 ELSE 0] : one \in {0, 1, 8}}
    ELSE IF col = "State"
    THEN {shard \o hash : shard \in {[i \in 1..8 |-> byte] : byte \in {1, 2}},
                          hash \in CryptoHashes}
    ELSE CryptoHashes

\* The keys callers read with: the hot format and, for State, a bare hash.
ReadKeys(col) == HotKeys(col) \cup (IF col = "State" THEN CryptoHashes ELSE {})

\* ColdDB::new over two empty databases, in a node that is no validator.
InitCold ==
    /\ InitClient
    /\ validator_signer = None
    /\ produce_empty_blocks = TRUE
    /\ assigned_shards = {}
    /\ tracked_shards = {}

\* Set in every column but Transactions, and Insert in Block; none of them
\* is dropped, so the build's debug assertions make no difference to them.
NextColdKeys ==
    \/ \E col \in DBCol \ {"Transactions"} :
       \E op \in [type : IF col = "Block" THEN {"Set", "Insert"} ELSE {"Set"},
                  col : {col}, key : HotKeys(col), value : Values] :
          ColdDB_write(<<op>>, FALSE)
    \/ \E col \in DBCol \ {"Transactions"} : \E key \in ReadKeys(col) :
           ColdDB_read("get_raw_bytes", col, key)
    \/ hot_write("BlockHeader", [i \in 1..32 |-> 0], <<72>>)
    \/ Restart

SpecColdKeys == InitCold /\ [][NextColdKeys]_vars

\* The key the cold database is to hold for a hot-format key: the
\* big-endian bytes for a height (the eight bytes in the opposite order),
\* the bare hash for State, else the key.
ExpectedColdKey(col, key) ==
    IF col \in HeightColumns THEN [i \in 1..8 |-> key[9 - i]]
    ELSE IF col = "State" THEN SubSeq(key, 9, 40)
    ELSE key

\* A step that writes the single operation Set {col, key, value}.
WritesSet ==
    /\ last_result'.op = "ColdDB::write"
    /\ last_result'.kind = "ok"
    /\ last_result'.transaction[1].type = "Set"

\* A read of the key just written, with get_raw_bytes, from the cold side.
ReadsBack ==
    /\ last_result.op = "ColdDB::write"
    /\ last_result.kind = "ok"
    /\ last_result.transaction[1].type = "Set"
    /\ last_result'.op = "get_raw_bytes"
    /\ last_result'.col = last_result.transaction[1].col
    /\ last_result'.key = last_result.transaction[1].key
    /\ ~is_hot_column(last_result'.col)

\* C18 as stated: the Set is stored under the adjusted key and, in a column
\* whose keys are adjusted, not under the hot-format key; get_raw_bytes with
\* the hot-format key then returns the written value.
C18_KeyAdjustedRoundTrip ==
    [][/\ WritesSet =>
            LET op == last_result'.transaction[1] IN
            /\ db_get_raw_bytes(cold', op.col, ExpectedColdKey(op.col, op.key)) = SomeBytes(op.value)
            /\ \A e \in cold' \ cold : e.key = ExpectedColdKey(op.col, op.key)
            /\ op.col \in HeightColumns \cup {"State"} =>
                   db_get_raw_bytes(cold', op.col, op.key) # SomeBytes(op.value)
       /\ ReadsBack =>
            last_result'.value = SomeBytes(last_result.transaction[1].value)]_vars

\* C18: the Set is stored under the adjusted key, which is the hot-format
\* key itself for a height whose bytes read the same in both orders, and
\* under no other key; get_raw_bytes with the hot-format key then returns
\* the written value, followed by a reference count of one in State.
C18_KeyAdjustedRoundTripWithCount ==
    [][/\ WritesSet =>
            LET op == last_result'.transaction[1] IN
            /\ db_get_raw_bytes(cold', op.col, ExpectedColdKey(op.col, op.key)) = SomeBytes(op.value)
            /\ \A e \in cold' \ cold : e.col = op.col /\ e.key = ExpectedColdKey(op.col, op.key)
            /\ op.key # ExpectedColdKey(op.col, op.key) =>
                   db_get_raw_bytes(cold', op.col, op.key)
                       = db_get_raw_bytes(cold, op.col, op.key)
       /\ ReadsBack =>
            last_result'.value =
                IF last_result'.col = "State"
                THEN SomeBytes(last_result.transaction[1].value \o ONE)
                ELSE SomeBytes(last_result.transaction[1].value)]_vars

\* A height key that differs from its cold key was written and read back,
\* the cold database holding nothing under the hot-format key.
C18_Witness ==
    /\ last_result.op = "get_raw_bytes"
    /\ last_result.col \in HeightColumns
    /\ last_result.key # ExpectedColdKey(last_result.col, last_result.key)
    /\ last_result.value # NoBytes
    /\ db_get_raw_bytes(cold, last_result.col, last_result.key) = NoBytes
    /\ db_get_raw_bytes(cold, last_result.col, ExpectedColdKey(last_result.col, last_result.key)) = last_result.value

\* ------------------------------------------------------------------------
\* The cold storage under reference-counted writes.

\* Reference counts as 8-byte little-endian i64: 1, 42, 0 and -1.
RefCounts ==
    {[j \in 1..8 |-> IF j = 1 THEN c[1] ELSE c[2]] : c \in {<<1, 0>>, <<42, 0>>, <<0, 0>>, <<255, 255>>}}

\* UpdateRefcount in the reference-counted columns and in Block, which is
\* not one; Set in State; Delete and DeleteAll.
NextColdRc ==
    \/ \E op \in UNION {[type : {"UpdateRefcount"}, col : {col}, key : HotKeys(col),
                         value : {v \o c : v \in Values, c \in RefCounts}] :
                           col \in {"State", "Transactions", "Block"}}
                  \cup [type : {"Set"}, col : {"State"}, key : HotKeys("State"), value : Values]
                  \cup [type : {"Delete"}, col : {"Transactions"}, key : CryptoHashes, value : {<<>>}]
                  \cup [type : {"DeleteAll"}, col : {"Transactions"}, key : {<<>>}, value : {<<>>}] :
       \E debug_assertions \in BOOLEAN :
           ColdDB_write(<<op>>, debug_assertions)
    \/ \E method \in {"get_raw_bytes", "get_with_rc_stripped"} :
       \E col \in {"State", "Transactions", "Block"} : \E key \in ReadKeys(col) :
           ColdDB_read(method, col, key)
    \/ Restart

SpecColdRc == InitCold /\ [][NextColdRc]_vars

\* C19: an UpdateRefcount with a positive count, written through ColdDB in
\* a reference-counted column, is stored as the bare value; read back with
\* the same key, get_raw_bytes returns the value followed by a reference
\* count of one and get_with_rc_stripped the bare value.
C19_RefcountStrippedAndSynthesised ==
    [][\A v \in Values, c \in RefCounts :
         (c[8] < 128 /\ c[1] # 0) =>
           /\ (/\ last_result'.op = "ColdDB::write"
               /\ last_result'.transaction[1].type = "UpdateRefcount"
               /\ is_rc(last_result'.transaction[1].col)
               /\ last_result'.transaction[1].value = v \o c)
                 => /\ last_result'.kind = "ok"
                    /\ \E e \in cold' : e.col = last_result'.transaction[1].col /\ e.value = v
                    /\ \A e \in cold' \ cold : e.value = v
           /\ (/\ last_result.op = "ColdDB::write"
               /\ last_result.transaction[1].type = "UpdateRefcount"
               /\ is_rc(last_result.transaction[1].col)
               /\ last_result.transaction[1].value = v \o c
               /\ last_result'.op \in {"get_raw_bytes", "get_with_rc_stripped"}
               /\ last_result'.col = last_result.transaction[1].col
               /\ last_result'.key = last_result.transaction[1].key)
                 => last_result'.value =
                        IF last_result'.op = "get_raw_bytes"
                        THEN SomeBytes(v \o ONE) ELSE SomeBytes(v)]_vars

C21_BadDataBansOtherErrorsProceed ==
    [][(last_result'.op = "receive_block" /\ last_result'.kind # "dropped") =>
         LET B == last_result'.block IN
         /\ B.forged =>
               /\ network_requests' =
                      <<[type |-> "BanPeer", peer_id |-> last_result'.peer_id,
                         ban_reason |-> "BadBlockHeader"]>>
               /\ last_result'.result = "none"
               /\ UNCHANGED <<orphans, in_processing, processed_heights,
                              rebroadcasted_blocks, blocks>>
         /\ (~B.forged /\ B.prev_hash \notin DOMAIN blocks) =>
               /\ \A i \in 1..Len(network_requests') :
                      network_requests'[i].type # "BanPeer"
               /\ last_result'.result # "none"
               /\ B.height \in processed_heights']_vars

\* Both cases happened: a forged block got its sender banned, and a good
\* block whose previous block is missing became an orphan.
C21_Witness ==
    /\ last_result.op = "receive_block"
    /\ last_result.kind = "banned"
    /\ last_result.block.forged
    /\ Len(network_requests) = 1
    /\ \E o \in orphans : o.prev_hash \notin DOMAIN blocks

\* C22: a received block is rebroadcast only if its header and validation
\* succeeded and it is higher than the head or of the head's epoch, and
\* never when it was requested or the client is syncing.
C22_RebroadcastOnlyValidFreshUnrequested ==
    [][(/\ last_result'.op = "receive_block"
        /\ \E i \in 1..Len(network_requests') :
               network_requests'[i].type = "Block") =>
         LET B == last_result'.block IN
         /\ ~B.forged
         /\ B.prev_hash \in DOMAIN blocks
         /\ (B.height > HeadBlock.height \/ last_result'.same_epoch = "yes")
         /\ ~last_result'.was_requested
         /\ ~is_syncing]_vars

\* A block not higher than the head, of the head's epoch, was rebroadcast.
C22_Witness ==
    /\ last_result.op = "receive_block"
    /\ last_result.same_epoch = "yes"
    /\ \E i \in 1..Len(network_requests) :
           /\ network_requests[i].type = "Block"
           /\ network_requests[i].hash = last_result.block.hash

\* ------------------------------------------------- approval collection

\* Bound on the approvals parked at one time.
MaxParked == 2

\* The approvals that reach the node: endorsements of two blocks and the
\* skip of a height, for the height alice or bob produces, signed by
\* alice, bob or the slashed carol with the key of an epoch.
Approvals ==
    [inner : ([kind : {"Endorsement"}, of : {11, 112}] \cup [kind : {"Skip"}, of : {1}]),
     account_id : {"alice", "bob", "carol"}, target_height : {2, 3}, signature : {1, 2}]

\* Approvals arriving from peers and, in its name, from the node, with whatever
\* lookup failing, and the chain accepting blocks of every provenance.
NextCollect ==
    \/ \E approval \in Approvals, approval_type \in {"PeerApproval", "SelfApproval"}, fault \in {"none", "parent", "epoch", "header", "approvers"} :
          /\ approval_type = "SelfApproval" => approval.account_id = validator_signer
          /\ Cardinality(UNION {pending_approvals[i].entry : i \in DOMAIN pending_approvals}) < MaxParked
          /\ collect_block_approval(approval, approval_type, fault)
    \/ \E b \in {IngressBlock(1, 1, FALSE), IngressBlock(1, 2, FALSE), IngressBlock(11, 2, FALSE)}, provenance \in {"NONE", "SYNC", "PRODUCED"} :
          /\ Cardinality(DOMAIN blocks) < MaxBlocks
          /\ postprocess_ready_blocks(b.hash, b.prev_hash, b.height, {}, {}, 10,
                                      provenance, FALSE, EmptyMap, tail)

SpecCollect == InitIngress /\ [][NextCollect]_vars

\* C23: every approval of a peer handed to Doomslug, by
\* collect_block_approval or when a block is accepted and the parked
\* approvals are drained, has a signature that verifies under the epoch of
\* the block after its parent if the signer is a validator of that epoch
\* and under the following epoch otherwise; and an approval of an account
\* that is a validator of the epoch after the head's only, for the height
\* this node produces on the head, is handed to Doomslug.
C23_SignatureVerifiedUnderRightEpoch ==
    [][/\ \A a \in (IF last_result'.op = "on_block_accepted" THEN last_result'.to_doomslug
                ELSE IF last_result'.op = "collect_block_approval" /\ last_result'.outcome = "doomslug"
                THEN {[approval |-> last_result'.approval, approval_type |-> last_result'.approval_type]}
                ELSE {}) :
             a.approval_type = "PeerApproval" =>
                LET by_height == get_block_header_by_height(blocks', head', a.approval.inner.of)
                    parent == IF a.approval.inner.kind = "Skip" THEN by_height ELSE a.approval.inner.of
                    next_block_epoch_id == blocks'[parent].height
                    signer == a.approval.account_id
                IN /\ parent \in DOMAIN blocks'
                   /\ IF signer \in EpochValidators(next_block_epoch_id)
                      THEN a.approval.signature = next_block_epoch_id /\ signer # "carol"
                      ELSE /\ a.approval.signature = next_block_epoch_id + 1
                           /\ signer \in EpochValidators(next_block_epoch_id + 1) \ {"carol"}
       /\ (/\ last_result'.op = "collect_block_approval"
           /\ last_result'.fault = "none"
           /\ last_result'.approval.inner = [kind |-> "Endorsement", of |-> head]
           /\ last_result'.approval.account_id = "bob"
           /\ blocks[head].height = 2
           /\ last_result'.approval.signature = 2
           /\ last_result'.approval.target_height = 3)
          => last_result'.outcome = "doomslug"]_vars

\* The approval of bob, a validator of the epoch after the head's only,
\* for the block this node produces on the head was handed to Doomslug.
C23_Witness ==
    /\ last_result.op = "collect_block_approval"
    /\ last_result.outcome = "doomslug"
    /\ last_result.approval_type = "PeerApproval"
    /\ last_result.approval.account_id = "bob"
    /\ last_result.approval.inner = [kind |-> "Endorsement", of |-> head]
    /\ blocks[head].height = 2

\* C24: an approval given to collect_block_approval whose parent and
\* epochs resolve and whose signature is valid, if it is a peer's, is handed
\* to Doomslug if and only if this node's validator is the block producer
\* of the target height; when it is not, the approval is discarded and
\* pending_approvals left as it was if the header of the parent is known,
\* and parked under its ApprovalInner if the lookup of the header fails
\* with DBNotFoundErr.
C24_HandedIffElectedProducer ==
    [][last_result'.op = "collect_block_approval" =>
          LET approval == last_result'.approval
              by_height == get_block_header_by_height(blocks, head, approval.inner.of)
              parent == IF approval.inner.kind = "Skip" THEN by_height ELSE approval.inner.of
              epoch_id == IF approval.account_id \in EpochValidators(blocks[parent].height)
                          THEN blocks[parent].height ELSE blocks[parent].height + 1
              elected == validator_signer = (IF approval.target_height % 2 = 1 THEN "alice" ELSE "bob")
          IN (/\ parent \in DOMAIN blocks
              /\ last_result'.fault \in {"none", "header"}
              /\ last_result'.approval_type = "PeerApproval" =>
                     /\ approval.signature = epoch_id
                     /\ approval.account_id \in EpochValidators(epoch_id) \ {"carol"})
             => /\ last_result'.outcome = "doomslug" <=> elected
                /\ ~elected /\ last_result'.fault = "none" =>
                       /\ last_result'.outcome = "drop"
                       /\ pending_approvals' = pending_approvals
                /\ ~elected /\ last_result'.fault = "header" =>
                       /\ last_result'.outcome = "park"
                       /\ \E i \in DOMAIN pending_approvals' :
                             /\ pending_approvals'[i].inner = approval.inner
                             /\ [approval |-> approval, approval_type |-> last_result'.approval_type]
                                    \in pending_approvals'[i].entry]_vars

\* A valid approval for a height bob produces was parked because the
\* header of its parent was not found, and another was discarded.
C24_Witness ==
    /\ last_result.op = "collect_block_approval"
    /\ last_result.fault = "header"
    /\ last_result.outcome = "park"
    /\ last_result.approval_type = "PeerApproval"
    /\ last_result.approval.target_height = 2
    /\ Len(pending_approvals) = 2

\* C25: when the header by height of a Skip or the epoch of the block
\* after the parent is not found (DBNotFoundErr), collect_block_approval
\* parks the approval under its ApprovalInner if and only if its signer is
\* a validator, not slashed, of the head's epoch or of the epoch after it;
\* when the lookup fails with another error, or the signer is in neither
\* set, the approval is dropped and pending_approvals is left as it was.
C25_ParkedOnNotFoundIfValidator ==
    [][last_result'.op = "collect_block_approval" =>
          LET approval == last_result'.approval
              fault == last_result'.fault
              by_height == get_block_header_by_height(blocks, head, approval.inner.of)
              not_found == IF approval.inner.kind = "Skip"
                           THEN fault # "parent" /\ by_height = DefaultHash
                           ELSE fault # "epoch" /\ approval.inner.of \notin DOMAIN blocks
              other_error == IF approval.inner.kind = "Skip"
                             THEN fault = "parent" \/ (fault = "epoch" /\ by_height # DefaultHash)
                             ELSE fault = "epoch"
              epoch_id == IF blocks[head].prev_hash = DefaultHash THEN 0
                          ELSE blocks[blocks[head].prev_hash].height
              validator == approval.account_id \in
                               (EpochValidators(epoch_id) \cup EpochValidators(epoch_id + 1)) \ {"carol"}
          IN /\ not_found /\ validator =>
                   /\ last_result'.outcome = "park"
                   /\ \E i \in DOMAIN pending_approvals' :
                         /\ pending_approvals'[i].inner = approval.inner
                         /\ [approval |-> approval, approval_type |-> last_result'.approval_type]
                                \in pending_approvals'[i].entry
             /\ other_error \/ (not_found /\ ~validator) =>
                   /\ last_result'.outcome = "drop"
                   /\ pending_approvals' = pending_approvals]_vars

\* An approval was parked next to one of another key because the skipped
\* height has no block on the chain of the head.
C25_Witness ==
    /\ last_result.op = "collect_block_approval"
    /\ last_result.approval.inner.kind = "Skip"
    /\ last_result.fault = "none"
    /\ get_block_header_by_height(blocks, head, 1) = DefaultHash
    /\ last_result.outcome = "park"
    /\ Len(pending_approvals) = 2

\* C26 as stated: after the acceptance of a block, of whatever provenance,
\* pending_approvals holds no entry under the endorsement of the block
\* nor under the skip of its height.
C26_DrainedWhateverProvenance ==
    [][last_result'.op = "on_block_accepted" =>
          \A i \in DOMAIN pending_approvals' :
             /\ pending_approvals'[i].inner # [kind |-> "Endorsement", of |-> last_result'.block_hash]
             /\ pending_approvals'[i].inner # [kind |-> "Skip", of |-> blocks'[last_result'.block_hash].height]]_vars

\* C26: the acceptance of a block of provenance NONE takes every approval
\* parked under the endorsement of the block and under the skip of its
\* height out of pending_approvals and submits it to collect_block_approval
\* again: afterwards nothing is parked under the endorsement, and under the
\* skip only approvals that were parked there and are parked again, the
\* chain of the head having no block of that height; the other keys keep
\* their approvals.  The acceptance of a block of another provenance
\* leaves pending_approvals as it was.
C26_DrainedWhenReceived ==
    [][last_result'.op = "on_block_accepted" =>
          LET endorsement == [kind |-> "Endorsement", of |-> last_result'.block_hash]
              height == blocks'[last_result'.block_hash].height
              skip == [kind |-> "Skip", of |-> height]
              at(cache, inner) == UNION {cache[i].entry : i \in {k \in DOMAIN cache : cache[k].inner = inner}}
              keys(cache) == {cache[i].inner : i \in DOMAIN cache}
          IN IF last_result'.provenance = "NONE"
             THEN /\ at(pending_approvals', endorsement) = {}
                  /\ at(pending_approvals', skip) \subseteq at(pending_approvals, skip)
                  /\ at(pending_approvals', skip) # {} =>
                         get_block_header_by_height(blocks', head', height) = DefaultHash
                  /\ at(pending_approvals, skip) \ at(pending_approvals', skip) \subseteq
                         {a \in at(pending_approvals, skip) :
                             get_block_header_by_height(blocks', head', height) # DefaultHash
                             \/ a \in last_result'.to_doomslug}
                  /\ \A inner \in keys(pending_approvals) \ {endorsement, skip} :
                         at(pending_approvals', inner) = at(pending_approvals, inner)
             ELSE pending_approvals' = pending_approvals]_vars

\* A received block was accepted with approvals parked under its
\* endorsement and under the skip of its height.
C26_Witness ==
    /\ last_result.op = "on_block_accepted"
    /\ last_result.provenance = "NONE"
    /\ \E i, j \in DOMAIN last_result.pending_before :
          /\ last_result.pending_before[i].inner = [kind |-> "Endorsement", of |-> last_result.block_hash]
          /\ last_result.pending_before[j].inner = [kind |-> "Skip", of |-> blocks[last_result.block_hash].height]

\* ------------------------------------------------------ the three LRUs

\* Approvals that cannot be resolved yet, chunk headers getting ready on
\* three previous blocks and blocks of peers to rebroadcast: more keys
\* than pending_approvals, the readiness cache and rebroadcasted_blocks
\* hold.
NextLru ==
    \/ \E approval \in {a \in Approvals : a.account_id = "alice" /\ a.target_height = 2 /\ a.signature = 1} :
          collect_block_approval(approval, "SelfApproval", "none")
    \/ \E prev_block_hash \in {1, 11, 12} :
          on_chunk_header_ready_for_inclusion(ChunkHeader(0, prev_block_hash, {}, 0))
    \/ \E height \in {1, 2, 3} :
          receive_block(IngressBlock(1, height, FALSE), "p1", FALSE)

SpecLru == InitIngress /\ [][NextLru]_vars

\* C27: pending_approvals never holds more keys than there are block
\* producer seats, the chunk readiness cache never more previous block
\* hashes than CHUNK_HEADERS_FOR_INCLUSION_CACHE_SIZE and every header of it
\* is under one of them, rebroadcasted_blocks never more hashes than
\* NUM_REBROADCAST_BLOCKS; and a key put into a full one of them takes the
\* place of the least recently used key.
C27_LruBoundsAndEviction ==
    [][LET pending_keys(cache) == [i \in DOMAIN cache |-> cache[i].inner]
           Put(old, new, capacity) ==
               /\ Len(new) <= capacity
               /\ (/\ Len(old) = capacity
                   /\ new # old
                   /\ Len(new) > 0
                   /\ \A i \in DOMAIN old : old[i] # new[Len(new)])
                  => new = Append(Tail(old), new[Len(new)])
       IN /\ Put(pending_keys(pending_approvals), pending_keys(pending_approvals'),
                 num_block_producer_seats)
          /\ Put(ready_lru, ready_lru', CHUNK_HEADERS_FOR_INCLUSION_CACHE_SIZE)
          /\ \A h \in ready' : \E i \in DOMAIN ready_lru' : ready_lru'[i] = h.prev_block_hash
          /\ Put(rebroadcasted_blocks, rebroadcasted_blocks', NUM_REBROADCAST_BLOCKS)]_vars

\* Three blocks were rebroadcast and the three structures are full.
C27_Witness ==
    /\ Cardinality(in_processing) = 3
    /\ Len(rebroadcasted_blocks) = NUM_REBROADCAST_BLOCKS
    /\ Len(pending_approvals) = num_block_producer_seats
    /\ Len(ready_lru) = CHUNK_HEADERS_FOR_INCLUSION_CACHE_SIZE
    /\ \A h \in ready : h.prev_block_hash # 1

\* ------------------------------------------ chunk headers staying ready

\* C28 as stated: once produce_block has returned a block that includes a
\* header of the readiness cache, get_chunk_headers_ready_for_inclusion
\* reports the header no more.
C28_NotReadyOnceIncluded ==
    (last_result.op = "produce_block" /\ last_result.kind = "some") =>
        \A h \in get_chunk_headers_ready_for_inclusion(last_result.block.prev_hash) :
            last_result.block.chunks[h.shard_id]
                # [h EXCEPT !.height_included = last_result.block.height]

\* C28: a header recorded by on_chunk_header_ready_for_inclusion is
\* reported by get_chunk_headers_ready_for_inclusion for its
\* prev_block_hash after every step that neither records another header for
\* the same prev_block_hash and shard nor evicts the prev_block_hash from the
\* cache; produce_block leaves the cache as it is, so the headers it put
\* into the block it returns are reported as before.
C28_ReadyUntilReplacedOrEvicted ==
    [][/\ \A h \in ready :
             \/ h \in get_chunk_headers_ready_for_inclusion(h.prev_block_hash)'
             \/ \E g \in ready' : /\ g # h
                                   /\ g.prev_block_hash = h.prev_block_hash
                                   /\ g.shard_id = h.shard_id
             \/ \A i \in DOMAIN ready_lru' : ready_lru'[i] # h.prev_block_hash
       /\ last_result'.op = "produce_block" =>
             /\ ready' = ready
             /\ ready_lru' = ready_lru]_vars

\* produce_block returned a block with a ready header in it, and the
\* header is reported as ready.
C28_Witness ==
    /\ last_result.op = "produce_block"
    /\ last_result.kind = "some"
    /\ \E h \in get_chunk_headers_ready_for_inclusion(last_result.block.prev_hash) :
          last_result.block.chunks[h.shard_id]
              = [h EXCEPT !.height_included = last_result.block.height]

\* ----------------------------------------------------- chunk production

\* Transactions recorded in the pool, chunks produced on the head or on an
\* unknown block with every answer of the runtime, blocks with a
\* transaction accepted on the head, and restarts.
NextProduceChunk ==
    \/ \E tx \in Txs : process_tx(tx, TRUE, FALSE,
              {answers \in AnswersInEpoch :
                  /\ answers.has_state_root
                  /\ answers.producers[<<0, 2>>] = "alice"
                  /\ answers.next_chunk_producers[1] = "alice"})
    \/ \E prev_block_hash \in {head, 99}, shard_id \in Shards, chunk_proposer \in Accounts :
       \E epoch_start \in BOOLEAN, caught_up \in BOOLEAN :
       \E fault \in {"none", "chunk_producer", "epoch", "chunk_extra", "prepare", "receipts"} :
       \E pulled \in SUBSET sharded_tx_pool[shard_id] : \E transactions \in SUBSET pulled :
          /\ ~epoch_start => caught_up
          /\ pulled # {} => /\ fault \in {"none", "prepare", "receipts"}
                            /\ chunk_proposer = validator_signer
                            /\ prev_block_hash = head
          /\ produce_chunk(prev_block_hash, HeadBlock.height + 1, shard_id, chunk_proposer,
                        epoch_start, caught_up, fault, pulled, transactions)
    \/ \E tx \in Txs :
          /\ Cardinality(DOMAIN blocks) < MaxBlocks
          /\ postprocess_ready_blocks(FreshHash, head, HeadBlock.height + 1,
                                      {ShardOf(tx)}, {tx}, 10, "NONE", FALSE,
                                      EmptyMap, tail)
    \/ Restart

SpecProduceChunk == InitPool /\ [][NextProduceChunk]_vars

\* C29: produce_chunk of a node with a validator returns Ok(None) when the
\* validator is not the chunk producer the runtime names, and
\* Error::ChunkProducer when it is, the next block starts an epoch and the
\* previous block, which the chain knows, is not caught up; both times the
\* pool, the chain store, the readiness cache and the databases are as
\* before and nothing is sent.
C29_NoChunkLeavesPoolAlone ==
    [][(/\ last_result'.op = "produce_chunk"
        /\ validator_signer # None
        /\ last_result'.fault = "none") =>
          LET not_elected == last_result'.chunk_proposer # validator_signer
              not_caught_up == /\ ~not_elected
                               /\ last_result'.epoch_start
                               /\ ~last_result'.caught_up
                               /\ last_result'.prev_block_hash \in DOMAIN blocks
          IN /\ not_elected => last_result'.kind = "none"
             /\ not_caught_up => last_result'.kind = "err_chunk_producer"
             /\ not_elected \/ not_caught_up =>
                   /\ sharded_tx_pool' = sharded_tx_pool
                   /\ network_requests' = <<>>
                   /\ blocks' = blocks
                   /\ ready' = ready
                   /\ <<hot, cold>>' = <<hot, cold>>]_vars

\* produce_chunk failed with Error::ChunkProducer for an elected producer
\* with transactions in the pool of the shard.
C29_Witness ==
    /\ last_result.op = "produce_chunk"
    /\ last_result.kind = "err_chunk_producer"
    /\ last_result.fault = "none"
    /\ last_result.chunk_proposer = validator_signer
    /\ sharded_tx_pool[last_result.shard_id] # {}

NextRoute ==
    \/ \E is_forwarded \in BOOLEAN, check_only \in BOOLEAN :
          process_tx(1, is_forwarded, check_only,
              {answers \in
                  [next_epoch_started : BOOLEAN, next_epoch_estimated_height : {3},
                   producers :
                       {[k \in (0..1) \X {2, TX_ROUTING_HEIGHT_HORIZON * 2} |->
                            IF k = bad THEN "err"
                            ELSE IF k[1] = 0 THEN (IF k[2] = 2 THEN a ELSE "bob")
                            ELSE IF k[2] = 2 THEN c ELSE "carol"] :
                          a \in {"alice", "bob"}, c \in {"bob", "carol"},
                          bad \in {<<2, 2>>, <<0, 2>>, <<1, TX_ROUTING_HEIGHT_HORIZON * 2>>}},
                   next_chunk_producers : {<<"bob", "bob">>, <<"bob", "alice">>, <<"err", "alice">>},
                   has_state_root : BOOLEAN] :
                 answers.next_chunk_producers = <<"bob", "bob">>
                     \/ (answers.has_state_root /\ answers.producers[<<0, 2>>] # "err")})
    \/ /\ HeadBlock.height + TX_ROUTING_HEIGHT_HORIZON < 3
       /\ postprocess_ready_blocks(FreshHash, head, HeadBlock.height + 1,
                                   {}, {}, 10, "NONE", FALSE, EmptyMap, tail)

SpecRoute == InitPool /\ [][NextRoute]_vars

\* C31 as stated: process_tx of a valid transaction on a tracked shard with
\* check_only = false inserts it into the pool only if this node is an
\* active validator of the shard; a node that is not leaves the pool as
\* it was, and answers RequestRouted after forwarding a transaction that
\* was not forwarded.
C31_InsertedOnlyIfActive ==
    (/\ last_result.op = "process_tx"
     /\ ~last_result.check_only
     /\ last_result.kind # "InvalidTx"
     /\ cares_about_shard_this_or_next_epoch(validator_signer,
                                             ShardOf(last_result.tx), TRUE)
     /\ last_result.answers.has_state_root
     /\ active_validator(last_result.answers) = "no")
    => /\ sharded_tx_pool = last_result.pool_before
       /\ (~last_result.is_forwarded /\ network_requests # <<>>)
              => last_result.kind = "RequestRouted"

\* C31: process_tx of a valid transaction on a tracked shard with
\* check_only = false inserts it into the pool whether or not this node is
\* an active validator of the shard; an active validator answers ValidTx,
\* and a node that is not answers RequestRouted after forward_tx sent a
\* transaction that was not forwarded and NoResponse for a forwarded one.
C31_InsertedWhetherActiveOrNot ==
    (/\ last_result.op = "process_tx"
     /\ ~last_result.check_only
     /\ last_result.kind # "InvalidTx"
     /\ cares_about_shard_this_or_next_epoch(validator_signer,
                                             ShardOf(last_result.tx), TRUE)
     /\ last_result.answers.has_state_root
     /\ active_validator(last_result.answers) # "err")
    => LET answers == last_result.answers
           sending == forward_tx(IF answers.next_epoch_started THEN 1 ELSE 0,
                                 last_result.tx, answers)
       IN
       /\ last_result.tx \in sharded_tx_pool[ShardOf(last_result.tx)]
       /\ active_validator(answers) = "yes" =>
              last_result.kind \in {"ValidTx", "NoResponse"}
       /\ active_validator(answers) = "no" =>
              IF last_result.is_forwarded
              THEN last_result.kind = "NoResponse" /\ network_requests = <<>>
              ELSE \E sent \in sending :
                      /\ network_requests = sent.requests
                      /\ last_result.kind = IF sent.ok THEN "RequestRouted"
                                            ELSE "NoResponse"

C31_Witness ==
    /\ last_result.op = "process_tx"
    /\ ~last_result.check_only
    /\ ~last_result.is_forwarded
    /\ last_result.kind = "RequestRouted"
    /\ validator_signer = "alice"
    /\ last_result.answers.has_state_root
    /\ active_validator(last_result.answers) = "no"
    /\ cares_about_shard_this_or_next_epoch("alice", ShardOf(last_result.tx), TRUE)
    /\ last_result.tx \notin last_result.pool_before[ShardOf(last_result.tx)]
    /\ last_result.tx \in sharded_tx_pool[ShardOf(last_result.tx)]
    /\ network_requests # <<>>

C33_ForwardTargetsExact ==
    LET answers == last_result.answers
        tracked == cares_about_shard_this_or_next_epoch(
                       validator_signer, ShardOf(last_result.tx), TRUE)
        to_pool == tracked /\ answers.has_state_root
        boundary == get_next_epoch_id_if_at_boundary(answers) # <<>>
        given == IF to_pool /\ active_validator(answers) = "yes"
                 THEN (IF boundary THEN 1 ELSE 0)
                 ELSE IF answers.next_epoch_started THEN 1 ELSE 0
        found == {answers.producers[<<e, h>>] :
                     e \in {given} \cup (IF boundary THEN {1} ELSE {}),
                     h \in (2..TX_ROUTING_HEIGHT_HORIZON)
                              \cup {TX_ROUTING_HEIGHT_HORIZON * 2}}
    IN
    (/\ last_result.op = "process_tx"
     /\ ~last_result.is_forwarded
     /\ last_result.kind \notin {"InvalidTx", "DoesNotTrackShard"}
     /\ ~(last_result.kind = "ValidTx" /\ last_result.check_only)
     /\ ~(to_pool /\ active_validator(answers) = "err"))
    => IF "err" \in found
       THEN network_requests = <<>> /\ last_result.kind = "NoResponse"
       ELSE /\ last_result.kind \in {"RequestRouted", "ValidTx"}
            /\ {network_requests[i].account_id : i \in DOMAIN network_requests}
                   = found \ {validator_signer}
            /\ \A i, j \in DOMAIN network_requests :
                  /\ network_requests[i].type = "ForwardTx"
                  /\ network_requests[i].tx = last_result.tx
                  /\ network_requests[i].account_id # validator_signer
                  /\ network_requests[i].account_id = network_requests[j].account_id
                         => i = j

C33_Witness ==
    /\ last_result.op = "process_tx"
    /\ ~last_result.is_forwarded
    /\ last_result.kind = "RequestRouted"
    /\ validator_signer = "alice"
    /\ get_next_epoch_id_if_at_boundary(last_result.answers) = <<1>>
    /\ last_result.answers.producers[<<0, 2>>] = "alice"
    /\ last_result.answers.producers[<<0, TX_ROUTING_HEIGHT_HORIZON * 2>>] = "bob"
    /\ last_result.answers.producers[<<1, 2>>] = "bob"
    /\ last_result.answers.producers[<<1, TX_ROUTING_HEIGHT_HORIZON * 2>>] = "carol"
    /\ Len(network_requests) = 2
    /\ network_requests[1].account_id = "carol"
    /\ network_requests[2].account_id = "bob"

\* C39 as stated: process_tx with check_only = true has no side effect in
\* any branch: the pool is left as it was and no ForwardTx nor any other
\* request is sent, whatever is_forwarded, the tracking of the shard and
\* the availability of the state root are.
C39_CheckOnlyNoSideEffects ==
    (last_result.op = "process_tx" /\ last_result.check_only)
    => /\ sharded_tx_pool = last_result.pool_before
       /\ network_requests = <<>>

\* C39: process_tx with check_only = true leaves the pool as it was in
\* every branch, and sends requests in one branch only: on a node that
\* cares about the shard and finds no state root for it on the head, a
\* transaction that was not forwarded is forwarded by forward_tx under the
\* epoch of the next block and RequestRouted is answered.
C39_CheckOnlyForwardsWithoutStateRoot ==
    (last_result.op = "process_tx" /\ last_result.check_only)
    => LET answers == last_result.answers
           routed == /\ cares_about_shard_this_or_next_epoch(
                            validator_signer, ShardOf(last_result.tx), TRUE)
                     /\ ~answers.has_state_root
                     /\ ~last_result.is_forwarded
                     /\ last_result.kind # "InvalidTx"
       IN
       /\ sharded_tx_pool = last_result.pool_before
       /\ IF routed
          THEN \E sent \in forward_tx(IF answers.next_epoch_started THEN 1 ELSE 0,
                                      last_result.tx, answers) :
                  /\ network_requests = sent.requests
                  /\ last_result.kind = IF sent.ok THEN "RequestRouted"
                                        ELSE "NoResponse"
          ELSE network_requests = <<>>

C39_Witness ==
    /\ last_result.op = "process_tx"
    /\ last_result.check_only
    /\ ~last_result.is_forwarded
    /\ ~last_result.answers.has_state_root
    /\ last_result.kind = "RequestRouted"
    /\ validator_signer = "alice"
    /\ sharded_tx_pool = last_result.pool_before
    /\ Len(network_requests) = 2
    /\ network_requests[1].type = "ForwardTx"
    /\ network_requests[1].tx = last_result.tx

\* ----------------------------------------------------- chain info

MaxCatchupBlocks == 2

\* run_catchup under every answer for two sync hashes, StateSyncInfos
\* arriving and the process restarting.
NextCatchup ==
    \/ \E answers \in [state_sync_infos ->
             {a \in [fault : {"none", "get_block", "state_sync",
                              "catchup_blocks_step", "finish_catchup_blocks"},
                     state_sync : {"Unchanged", "Changed", "Completed"},
                     fetch_block : BOOLEAN, remaining : 0..MaxCatchupBlocks,
                     challenges : {<<>>, <<7>>}, need_to_split : BOOLEAN] :
                /\ a.fetch_block => a.state_sync = "Changed"
                /\ a.fault \in {"get_block", "state_sync"} => a.state_sync = "Unchanged"
                /\ a.fault \in {"catchup_blocks_step", "finish_catchup_blocks"} =>
                       a.state_sync = "Completed"
                /\ (a.state_sync # "Completed" \/ a.fault # "none") => a.remaining = 0
                /\ a.challenges # <<>> => a.remaining = 0 /\ a.fault = "none"
                /\ a.need_to_split => a.state_sync = "Unchanged" /\ a.fault = "none"}] :
          run_catchup(answers)
    \/ \E sync_hash \in {11, 12} :
          /\ last_result.kind # "panic"
          /\ sync_hash \notin state_sync_infos
          /\ sync_hash \notin DOMAIN catchup_state_syncs
          /\ state_sync_infos' = state_sync_infos \cup {sync_hash}
          /\ last_result' = NoResult
          /\ network_requests' = <<>>
          /\ UNCHANGED catchup_state_syncs
          /\ UNCHANGED db_vars
          /\ UNCHANGED <<pending_approvals, tier1_accounts_cache>>
          /\ UNCHANGED ingress_vars
          /\ UNCHANGED stall_vars
          /\ UNCHANGED <<blocks, head, latest_known, adv_produce_blocks,
                         adv_produce_blocks_only_valid, validator_signer,
                         produce_empty_blocks, ready, ready_lru,
                         doomslug_tip, sharded_tx_pool, assigned_shards,
                         tracked_shards, is_syncing, max_produced, adv_used>>
    \/ Restart

SpecCatchup == InitPool /\ [][NextCatchup]_vars

\* C35: in every run_catchup and for every sync hash it handles, the
\* phases come in one order: catchup_blocks_step is called only right
\* after StateSync::run returned Completed for that hash in this call,
\* finish_catchup_blocks only right after a catchup_blocks_step that left
\* the block catch-up finished; a hash for which StateSync::run returned
\* Unchanged or Changed gets no other call and its block catch-up state is
\* not touched; and the artifacts of a finish_catchup_blocks that returned
\* go to process_block_processing_artifact as the next call.
C35_CatchupPhasesInOrder ==
    last_result.op = "run_catchup" =>
    LET calls == last_result.calls
        before == last_result.syncs_before
    IN \A i \in DOMAIN calls :
       LET c == calls[i] IN
       /\ c.call = "state_sync.run" =>
             /\ \A j \in DOMAIN calls :
                   (calls[j].call = "state_sync.run"
                       /\ calls[j].sync_hash = c.sync_hash) => j = i
             /\ c.result \in {"Unchanged", "Changed"} =>
                   /\ \A j \in DOMAIN calls :
                         calls[j].sync_hash = c.sync_hash => j = i
                   /\ c.sync_hash \in state_sync_infos
                   /\ catchup_state_syncs[c.sync_hash].blocks_catch_up_state
                        = IF c.sync_hash \in DOMAIN before
                          THEN before[c.sync_hash].blocks_catch_up_state
                          ELSE 1
       /\ c.call = "catchup_blocks_step" =>
             /\ i > 1
             /\ calls[i - 1].call = "state_sync.run"
             /\ calls[i - 1].sync_hash = c.sync_hash
             /\ calls[i - 1].result = "Completed"
       /\ c.call = "finish_catchup_blocks" =>
             /\ i > 1
             /\ calls[i - 1].call = "catchup_blocks_step"
             /\ calls[i - 1].sync_hash = c.sync_hash
             /\ calls[i - 1].ok
             /\ calls[i - 1].result = 0
             /\ is_finished(catchup_state_syncs[c.sync_hash].blocks_catch_up_state)
             /\ c.ok =>
                   /\ i < Len(calls)
                   /\ calls[i + 1].call = "process_block_processing_artifact"
                   /\ calls[i + 1].sync_hash = c.sync_hash
                   /\ calls[i + 1].result = c.result
                   /\ c.sync_hash \notin state_sync_infos
       /\ c.call = "process_block_processing_artifact" =>
             /\ i > 1
             /\ calls[i - 1].call = "finish_catchup_blocks"
             /\ calls[i - 1].ok
             /\ validator_signer # None =>
                   \A k \in DOMAIN c.result :
                      \E n \in DOMAIN network_requests :
                         network_requests[n] = [type |-> "Challenge",
                                                challenge |-> c.result[k]]

C35_Witness ==
    /\ last_result.op = "run_catchup"
    /\ last_result.kind = "ok"
    /\ Len(last_result.calls) = 5
    /\ last_result.calls[1].sync_hash = 11
    /\ last_result.calls[1].result = "Changed"
    /\ last_result.calls[2].sync_hash = 12
    /\ last_result.calls[2].result = "Completed"
    /\ last_result.calls[3].call = "catchup_blocks_step"
    /\ last_result.calls[4].call = "finish_catchup_blocks"
    /\ last_result.calls[5].call = "process_block_processing_artifact"
    /\ last_result.calls[5].result = <<7>>
    /\ 12 \in DOMAIN last_result.syncs_before
    /\ last_result.syncs_before[12].blocks_catch_up_state = 1
    /\ state_sync_infos = {11}
    /\ network_requests = <<[type |-> "Challenge", challenge |-> 7]>>

\* ------------------------------------------------ taking the witness

\* C36 as stated: produce_block calls Doomslug::get_witness at most once,
\* and only after every 'not now' check has passed; a returned block comes
\* with exactly one call, and no produce_block takes the witness without
\* returning a block.
C36_WitnessTakenMeansBlock ==
    [][last_result'.op = "produce_block" =>
        /\ last_result'.witness_calls \in {0, 1}
        /\ last_result'.witness_calls = 1 =>
              /\ ~NotNowEmpty
              /\ ~adv_produce_blocks => ~NotNowRescheduled
        /\ last_result'.kind = "some" <=> last_result'.witness_calls = 1]_vars

\* C36: produce_block calls Doomslug::get_witness at most once, and only
\* after every 'not now' check has passed (those that adv_produce_blocks
\* does not switch off); a returned block comes with exactly one call,
\* and a produce_block that took the witness returns a block unless it
\* stops afterwards: by the panic on a newer protocol version, or by an
\* Err while the block is put together or LatestKnown is saved.
C36_WitnessTakenOnceAfterNotNow ==
    [][last_result'.op = "produce_block" =>
        /\ last_result'.witness_calls \in {0, 1}
        /\ last_result'.witness_calls = 1 =>
              /\ ~NotNowEmpty
              /\ ~adv_produce_blocks => ~NotNowRescheduled
        /\ last_result'.kind = "some" => last_result'.witness_calls = 1
        /\ (last_result'.witness_calls = 1 /\ last_result'.kind # "some") =>
              \/ /\ last_result'.kind = "panic"
                 /\ protocol_version_newer(last_result'.answers.protocol_version)
              \/ /\ last_result'.kind = "err"
                 /\ last_result'.fail_at \in {"assemble", "save"}]_vars

C36_Witness ==
    /\ last_result.op = "produce_block"
    /\ last_result.witness_calls = 1
    /\ last_result.kind = "err"
    /\ last_result.fail_at = "assemble"
    /\ last_result.answers.key_matches = "yes"
    /\ last_result.answers.protocol_version = PROTOCOL_VERSION
    /\ last_result.next_height > latest_known.height

\* ---------------------------------------------------------------------
\* Parking under pressure: approvals of one validator for three parents the
\* chain does not know yet, over a cache of two keys, and the parents
\* arriving.
\* ---------------------------------------------------------------------

NextPark ==
    \/ \E approval \in {a \in Approvals : a.account_id = "alice"}, approval_type \in {"PeerApproval", "SelfApproval"}, fault \in {"none", "header"} :
          collect_block_approval(approval, approval_type, fault)
    \/ \E b \in {IngressBlock(1, 1, FALSE), IngressBlock(11, 2, FALSE)}, provenance \in {"NONE", "SYNC"} :
          /\ Cardinality(DOMAIN blocks) < MaxBlocks
          /\ postprocess_ready_blocks(b.hash, b.prev_hash, b.height, {}, {}, 10,
                                      provenance, FALSE, EmptyMap, tail)

SpecPark == InitIngress /\ [][NextPark]_vars

\* C37 as stated: every approval of a peer held in pending_approvals has a
\* signature that verifies under the epoch of the block after the parent
\* its inner names.
C37_StoredPeerApprovalsVerified ==
    \A i \in DOMAIN pending_approvals : \A a \in pending_approvals[i].entry :
       a.approval_type = "PeerApproval" =>
          verify_validator_signature(
              validator_epoch_id(a.approval.inner.of % 10, a.approval.account_id),
              a.approval.account_id, a.approval.signature)

\* C37: a peer's approval whose parent is not known is parked whatever its
\* signature, as soon as its signer is a validator, not slashed, of the
\* head's epoch or of the one after: it becomes the most recent key of
\* pending_approvals, and the least recent key is lost when two other keys
\* were held.  Only an approval whose parent is known has had its signature
\* verified when it is parked.
C37_PeerApprovalParkedUnverified ==
    [][last_result'.op = "collect_block_approval" /\ last_result'.approval_type = "PeerApproval" =>
          LET approval == last_result'.approval
              by_height == get_block_header_by_height(blocks, head, approval.inner.of)
              parent_hash == IF approval.inner.kind = "Skip" THEN by_height ELSE approval.inner.of
              unknown == parent_hash \notin DOMAIN blocks
              epoch_id == IF blocks[head].prev_hash = DefaultHash THEN 0
                          ELSE blocks[blocks[head].prev_hash].height
              validator == approval.account_id \in
                               (EpochValidators(epoch_id) \cup EpochValidators(epoch_id + 1)) \ {"carol"}
              others == pending_pop(pending_approvals, approval.inner)
          IN /\ unknown => (last_result'.outcome = "park" <=> validator)
             /\ last_result'.outcome = "park" /\ ~unknown =>
                   verify_validator_signature(
                       validator_epoch_id(blocks[parent_hash].height, approval.account_id),
                       approval.account_id, approval.signature)
             /\ last_result'.outcome = "park" =>
                   /\ pending_approvals'[Len(pending_approvals')].inner = approval.inner
                   /\ [approval |-> approval, approval_type |-> "PeerApproval"]
                          \in pending_approvals'[Len(pending_approvals')].entry
                   /\ SubSeq(pending_approvals', 1, Len(pending_approvals') - 1) =
                          (IF Len(others) >= num_block_producer_seats THEN Tail(others) ELSE others)]_vars

\* A peer's approval with a signature of the wrong epoch took the place of
\* the least recent of two parked keys.
C37_Witness ==
    /\ last_result.op = "collect_block_approval"
    /\ last_result.approval_type = "PeerApproval"
    /\ last_result.outcome = "park"
    /\ last_result.fault = "none"
    /\ last_result.approval.inner = [kind |-> "Endorsement", of |-> 11]
    /\ last_result.approval.signature = 2
    /\ 11 \notin DOMAIN blocks
    /\ Len(pending_approvals) = 2
    /\ pending_approvals[1].inner = [kind |-> "Skip", of |-> 1]
    /\ parked(pending_approvals, [kind |-> "Endorsement", of |-> 112]) = {}
    /\ \E a \in pending_approvals[2].entry : a.approval.signature = 2 /\ a.approval_type = "PeerApproval"

\* C38: parking keeps one approval per inner and signer.  When an approval
\* is parked, the entry of its inner holds it in place of whatever the same
\* signer had parked there, and the approvals of the other signers as they
\* were; parking an approval that is already held leaves the approvals of
\* the entry as they were.  So no entry ever holds two approvals of one
\* signer, and the acceptance of the parent re-submits, and hands to
\* Doomslug, at most one approval per inner and signer: the last parked.
C38_OneApprovalPerInnerAndSigner ==
    [][/\ \A i \in DOMAIN pending_approvals' : \A a, b \in pending_approvals'[i].entry :
             a.approval.account_id = b.approval.account_id => a = b
       /\ last_result'.op = "collect_block_approval" /\ last_result'.outcome = "park" =>
             LET approval == last_result'.approval
                 before == parked(pending_approvals, approval.inner)
                 after == parked(pending_approvals', approval.inner)
             IN /\ {a \in after : a.approval.account_id = approval.account_id} =
                       {[approval |-> approval, approval_type |-> last_result'.approval_type]}
                /\ {a \in after : a.approval.account_id # approval.account_id} =
                       {a \in before : a.approval.account_id # approval.account_id}
                /\ approval \in {a.approval : a \in before} =>
                       {a.approval : a \in after} = {a.approval : a \in before}
       /\ last_result'.op = "on_block_accepted" =>
             \A a, b \in last_result'.to_doomslug :
                /\ a \in UNION {pending_approvals[i].entry : i \in DOMAIN pending_approvals}
                /\ a.approval.inner = b.approval.inner /\ a.approval.account_id = b.approval.account_id
                       => a = b]_vars

\* An approval for the height 3 took the place of the same signer's
\* approval for the height 2 under the endorsement of a block not known
\* yet, next to another parked key.
C38_Witness ==
    /\ last_result.op = "collect_block_approval"
    /\ last_result.outcome = "park"
    /\ last_result.approval.inner = [kind |-> "Endorsement", of |-> 11]
    /\ last_result.approval.target_height = 3
    /\ 11 \notin DOMAIN blocks
    /\ \E a \in last_result.replaced : a.approval.target_height = 2
    /\ Len(pending_approvals) = 2
    /\ Cardinality(parked(pending_approvals, last_result.approval.inner)) = 1

\* ---------------------------------------------------------------------
\* Transactions of several operations through ColdDB::write: Set in Block
\* under two keys, UpdateRefcount in Transactions with the counts 1 and 0,
\* Delete and DeleteAll.
\* ---------------------------------------------------------------------

MaxOps == 3

NextColdOrder ==
    \/ \E n \in 1..MaxOps : \E debug_assertions \in BOOLEAN :
       \E transaction \in [1..n ->
              [type : {"Set"}, col : {"Block"}, key : CryptoHashes, value : Values]
                  \cup [type : {"UpdateRefcount"}, col : {"Transactions"}, key : {[i \in 1..32 |-> 0]},
                        value : {<<70>> \o [j \in 1..8 |-> IF j = 1 THEN c ELSE 0] : c \in {0, 1}}]
                  \cup [type : {"Delete"}, col : {"Transactions"}, key : {[i \in 1..32 |-> 0]}, value : {<<>>}]
                  \cup [type : {"DeleteAll"}, col : {"Transactions"}, key : {<<>>}, value : {<<>>}]] :
           ColdDB_write(transaction, debug_assertions)
    \/ \E col \in {"Block", "Transactions"} : \E key \in CryptoHashes :
           ColdDB_read("get_raw_bytes", col, key)

SpecColdOrder == InitCold /\ [][NextColdOrder]_vars

\* C40: a ColdDB::write that returns hands the cold database the
\* operations it keeps, adjusted, in the order of the submitted
\* transaction, so that of two Sets of one key the later submitted one
\* stays; and whatever the cold database held under a key no kept
\* operation writes is still there.
C40_KeptOpsInSubmittedOrder ==
    [][last_result'.op = "ColdDB::write" /\ last_result'.kind = "ok" =>
          LET transaction == last_result'.transaction
              Kept(op) == adjust_op(op, FALSE).keep
              kept == SelectSeq(transaction, Kept)
              in_order == [i \in 1..Len(kept) |-> adjust_op(kept[i], FALSE).op]
              last_set(e) == \A i \in 1..Len(in_order) :
                                in_order[i].col = e.col /\ in_order[i].key = e.key =>
                                   \E j \in i..Len(in_order) :
                                      /\ in_order[j].col = e.col /\ in_order[j].key = e.key
                                      /\ in_order[j].value = e.value
                                      /\ \A k \in (j + 1)..Len(in_order) :
                                            ~(in_order[k].col = e.col /\ in_order[k].key = e.key)
          IN /\ last_result'.written = in_order
             /\ \A e \in cold' : last_set(e)
             /\ \A e \in cold : \E f \in cold' : f.col = e.col /\ f.key = e.key
             /\ \A e \in cold : e \in cold' \/ \E i \in 1..Len(in_order) :
                                                  in_order[i].col = e.col /\ in_order[i].key = e.key]_vars

====
